---- MODULE Spec2Model ----
(***************************************************************************)
(* Streaming chat turn of the Mini-Agent web client.                       *)
(*                                                                         *)
(*   sendMessage        src/frontend/src/api/chat.js   (frame decoder)     *)
(*   handleSendMessage  src/frontend/src/App.vue       (turn controller)   *)
(*   send / stop        src/frontend/src/components/FileTreeNode.vue       *)
(*                      (the ChatInput component that owns the             *)
(*                       AbortController of a turn)                        *)
(*                                                                         *)
(* Text is modelled at the level the code works on: the response body is   *)
(* a sequence of bytes, TextDecoder turns bytes into code points, and the  *)
(* line splitting, the prefix test and JSON.parse work on code points.     *)
(***************************************************************************)
EXTENDS Integers, Sequences, FiniteSets, TLC

(***************************************************************************)
(* Bounds of the model.                                                    *)
(***************************************************************************)
\* newline-terminated lines in a response body the decoder is checked on
MaxDecodeLines == 3
\* newline-terminated lines in a response body a whole turn is checked on
MaxLines == 2
\* longest chunk the transport hands over, short of "all that is left"
MaxChunk == 3
\* files attached to the turn
MaxFiles == 1
\* length of the chunks the transport hands over in a whole turn, short of
\* "all that is left"
TurnChunk == 8
\* events dispatched to the handler that builds blocks
MaxEvents == 4

(***************************************************************************)
(* Characters.                                                             *)
(***************************************************************************)
NL == 10
REPLACEMENT == 65533

\* "data: "
DataPrefix == <<100, 97, 116, 97, 58, 32>>
\* "data:"
DataField == <<100, 97, 116, 97, 58>>
\* "type", "content"
KeyType == <<116, 121, 112, 101>>
KeyContent == <<99, 111, 110, 116, 101, 110, 116>>
\* "thinking", "content", "done"
TypeThinking == <<116, 104, 105, 110, 107, 105, 110, 103>>
TypeContent == <<99, 111, 110, 116, 101, 110, 116>>
TypeDone == <<100, 111, 110, 101>>
TypeErrorEvent == <<101, 114, 114, 111, 114>>
\* "start", "thinking_end", "tool_call", "tool_result"
TypeStart == <<115, 116, 97, 114, 116>>
TypeThinkingEnd == <<116, 104, 105, 110, 107, 105, 110, 103, 95, 101, 110, 100>>
TypeToolCall == <<116, 111, 111, 108, 95, 99, 97, 108, 108>>
TypeToolResult == <<116, 111, 111, 108, 95, 114, 101, 115, 117, 108, 116>>
\* "tool_name", "arguments", "result", "success", "duration",
\* "thinking_duration", "session_id", "title"
KeyToolName == <<116, 111, 111, 108, 95, 110, 97, 109, 101>>
KeyArguments == <<97, 114, 103, 117, 109, 101, 110, 116, 115>>
KeyResult == <<114, 101, 115, 117, 108, 116>>
KeySuccess == <<115, 117, 99, 99, 101, 115, 115>>
KeyDuration == <<100, 117, 114, 97, 116, 105, 111, 110>>
KeyThinkingDuration ==
    <<116, 104, 105, 110, 107, 105, 110, 103, 95, 100, 117, 114, 97, 116,
      105, 111, 110>>
KeySessionId == <<115, 101, 115, 115, 105, 111, 110, 95, 105, 100>>
KeyTitle == <<116, 105, 116, 108, 101>>
\* "true", "false", "null", "[object Object]"
TextTrue == <<116, 114, 117, 101>>
TextFalse == <<102, 97, 108, 115, 101>>
TextNull == <<110, 117, 108, 108>>
TextObject == <<91, 111, 98, 106, 101, 99, 116, 32, 79, 98, 106, 101, 99, 116, 93>>

(***************************************************************************)
(* TextDecoder('utf-8'): the WHATWG UTF-8 decoder.  With {stream: true}    *)
(* the bytes of an unfinished character are kept in the decoder between    *)
(* two calls of decode().                                                  *)
(***************************************************************************)
NoPending == [cp |-> 0, seen |-> 0, needed |-> 0, lower |-> 128, upper |-> 191]

Utf8Lead(b) ==
    IF b <= 127 THEN [st |-> NoPending, out |-> <<b>>]
    ELSE IF b >= 194 /\ b <= 223 THEN
        [st |-> [cp |-> b - 192, seen |-> 0, needed |-> 1,
                 lower |-> 128, upper |-> 191],
         out |-> <<>>]
    ELSE IF b >= 224 /\ b <= 239 THEN
        [st |-> [cp |-> b - 224, seen |-> 0, needed |-> 2,
                 lower |-> IF b = 224 THEN 160 ELSE 128,
                 upper |-> IF b = 237 THEN 159 ELSE 191],
         out |-> <<>>]
    ELSE IF b >= 240 /\ b <= 244 THEN
        [st |-> [cp |-> b - 240, seen |-> 0, needed |-> 3,
                 lower |-> IF b = 240 THEN 144 ELSE 128,
                 upper |-> IF b = 244 THEN 143 ELSE 191],
         out |-> <<>>]
    ELSE [st |-> NoPending, out |-> <<REPLACEMENT>>]

Utf8Step(st, b) ==
    IF st.needed = 0 THEN Utf8Lead(b)
    ELSE IF b < st.lower \/ b > st.upper THEN
        \* the unfinished character is replaced, the byte is read again
        [st |-> Utf8Lead(b).st, out |-> <<REPLACEMENT>> \o Utf8Lead(b).out]
    ELSE LET cp == st.cp * 64 + (b - 128) IN
        IF st.seen + 1 = st.needed
        THEN [st |-> NoPending, out |-> <<cp>>]
        ELSE [st |-> [cp |-> cp, seen |-> st.seen + 1, needed |-> st.needed,
                      lower |-> 128, upper |-> 191],
              out |-> <<>>]

IsContinuation(b) == b >= 128 /\ b <= 191

\* The decoder state before bytes[i], st0 being the state before bytes[1].
\* A byte that is no continuation byte leaves the state its own lead state
\* whatever came before, and no character is pending after three
\* continuation bytes, so at most three steps are looked back.
RECURSIVE StateBefore(_, _, _)
StateBefore(st0, bytes, i) ==
    IF i = 1 THEN st0
    ELSE IF ~IsContinuation(bytes[i - 1]) THEN Utf8Lead(bytes[i - 1]).st
    ELSE IF i >= 4 /\ IsContinuation(bytes[i - 2]) /\ IsContinuation(bytes[i - 3])
    THEN NoPending
    ELSE Utf8Step(StateBefore(st0, bytes, i - 1), bytes[i - 1]).st

RECURSIVE Concat(_, _, _)
Concat(pieces, lo, hi) ==
    IF lo > hi THEN <<>>
    ELSE IF lo = hi THEN pieces[lo]
    ELSE Concat(pieces, lo, (lo + hi) \div 2) \o Concat(pieces, (lo + hi) \div 2 + 1, hi)

\* the decoder run over all of bytes
Utf8Run(st0, bytes) ==
    LET n == Len(bytes)
        step == [i \in 1..n |-> Utf8Step(StateBefore(st0, bytes, i), bytes[i])]
        out == [i \in 1..n |-> step[i].out]
    IN [st |-> IF n = 0 THEN st0 ELSE step[n].st, text |-> Concat(out, 1, n)]

\* decoder.decode(value) without {stream: true}: every call starts afresh
\* and an unfinished character at the end of the chunk is replaced
DecodeFlush(st, bytes) ==
    LET r == Utf8Run(NoPending, bytes) IN
    [st |-> NoPending,
     text |-> IF r.st.needed = 0 THEN r.text ELSE Append(r.text, REPLACEMENT)]

\* decoder.decode(value, { stream: true })
DecodeStream(st, bytes) == Utf8Run(st, bytes)

(***************************************************************************)
(* String.prototype.split('\n'), startsWith, slice.                        *)
(***************************************************************************)
\* buffer.split('\n'): the pieces between the newlines, at least one; the
\* last one is the text after the last newline
Split(text) ==
    LET nl == {i \in 1..Len(text) : text[i] = NL}
        n == Cardinality(nl)
        at(k) == CHOOSE i \in nl : Cardinality({j \in nl : j < i}) = k - 1
    IN [k \in 1..(n + 1) |->
           SubSeq(text, IF k = 1 THEN 1 ELSE at(k - 1) + 1,
                        IF k = n + 1 THEN Len(text) ELSE at(k) - 1)]

StartsWith(line, prefix) ==
    /\ Len(line) >= Len(prefix)
    /\ SubSeq(line, 1, Len(prefix)) = prefix

Slice(line, n) == SubSeq(line, n + 1, Len(line))

(***************************************************************************)
(* JSON.parse.  A value is [k, s, m]: k the kind, s the text of a string,  *)
(* number or literal, m the members of an object or the elements of an     *)
(* array, in source order.  \uXXXX escapes and exponents do not occur in   *)
(* the bodies of the model and are not recognised.                         *)
(***************************************************************************)
Undefined == [k |-> "undefined", s |-> <<>>, m |-> <<>>]
JStr(s) == [k |-> "str", s |-> s, m |-> <<>>]
JNum(s) == [k |-> "num", s |-> s, m |-> <<>>]
JLit(s) == [k |-> "lit", s |-> s, m |-> <<>>]
JObj(m) == [k |-> "obj", s |-> <<>>, m |-> m]
JArr(m) == [k |-> "arr", s |-> <<>>, m |-> m]

ParseFail == [ok |-> FALSE, val |-> Undefined, next |-> 0]
ParseOk(v, n) == [ok |-> TRUE, val |-> v, next |-> n]

IsWs(c) == c \in {32, 9, 10, 13}
IsDigit(c) == c >= 48 /\ c <= 57

RECURSIVE SkipWs(_, _)
SkipWs(t, i) == IF i <= Len(t) /\ IsWs(t[i]) THEN SkipWs(t, i + 1) ELSE i

RECURSIVE SkipDigits(_, _)
SkipDigits(t, i) == IF i <= Len(t) /\ IsDigit(t[i]) THEN SkipDigits(t, i + 1) ELSE i

HasAt(t, i, word) ==
    /\ i + Len(word) - 1 <= Len(t)
    /\ SubSeq(t, i, i + Len(word) - 1) = word

\* the character an escape \c stands for, 0 when \c is no escape
Unescape(c) ==
    CASE c = 34 -> 34
      [] c = 92 -> 92
      [] c = 47 -> 47
      [] c = 98 -> 8
      [] c = 102 -> 12
      [] c = 110 -> 10
      [] c = 114 -> 13
      [] c = 116 -> 9
      [] OTHER -> 0

\* t[i] is the first character after the opening quote
RECURSIVE ScanString(_, _, _)
ScanString(t, i, acc) ==
    IF i > Len(t) THEN ParseFail
    ELSE IF t[i] = 34 THEN ParseOk(JStr(acc), i + 1)
    ELSE IF t[i] < 32 THEN ParseFail
    ELSE IF t[i] = 92 THEN
        IF i + 1 <= Len(t) /\ Unescape(t[i + 1]) # 0
        THEN ScanString(t, i + 2, Append(acc, Unescape(t[i + 1])))
        ELSE ParseFail
    ELSE ScanString(t, i + 1, Append(acc, t[i]))

\* -? (0 | [1-9][0-9]*) (. [0-9]+)?
ScanNumber(t, i) ==
    LET d == IF t[i] = 45 THEN i + 1 ELSE i
        e == SkipDigits(t, d)
        intOk == e > d /\ (t[d] # 48 \/ e = d + 1)
        f == IF e <= Len(t) /\ t[e] = 46 THEN SkipDigits(t, e + 1) ELSE e
        fracOk == f = e \/ f > e + 1
    IN IF d <= Len(t) /\ intOk /\ fracOk
       THEN ParseOk(JNum(SubSeq(t, i, f - 1)), f)
       ELSE ParseFail

RECURSIVE ParseValue(_, _)
RECURSIVE ParseMembers(_, _, _)
RECURSIVE ParseElements(_, _, _)

ParseValue(t, i) ==
    LET j == SkipWs(t, i) IN
    IF j > Len(t) THEN ParseFail
    ELSE IF t[j] = 123 THEN
        LET q == SkipWs(t, j + 1) IN
        IF q <= Len(t) /\ t[q] = 125 THEN ParseOk(JObj(<<>>), q + 1)
        ELSE ParseMembers(t, q, <<>>)
    ELSE IF t[j] = 91 THEN
        LET q == SkipWs(t, j + 1) IN
        IF q <= Len(t) /\ t[q] = 93 THEN ParseOk(JArr(<<>>), q + 1)
        ELSE ParseElements(t, q, <<>>)
    ELSE IF t[j] = 34 THEN ScanString(t, j + 1, <<>>)
    ELSE IF t[j] = 45 \/ IsDigit(t[j]) THEN ScanNumber(t, j)
    ELSE IF HasAt(t, j, TextTrue) THEN ParseOk(JLit(TextTrue), j + 4)
    ELSE IF HasAt(t, j, TextFalse) THEN ParseOk(JLit(TextFalse), j + 5)
    ELSE IF HasAt(t, j, TextNull) THEN ParseOk(JLit(TextNull), j + 4)
    ELSE ParseFail

\* t[i] must open the key of the next member
ParseMembers(t, i, acc) ==
    IF i > Len(t) \/ t[i] # 34 THEN ParseFail
    ELSE LET key == ScanString(t, i + 1, <<>>) IN
    IF ~key.ok THEN ParseFail
    ELSE LET c == SkipWs(t, key.next) IN
    IF c > Len(t) \/ t[c] # 58 THEN ParseFail
    ELSE LET v == ParseValue(t, c + 1) IN
    IF ~v.ok THEN ParseFail
    ELSE LET e == SkipWs(t, v.next)
             all == Append(acc, [key |-> key.val.s, val |-> v.val])
         IN
    IF e > Len(t) THEN ParseFail
    ELSE IF t[e] = 125 THEN ParseOk(JObj(all), e + 1)
    ELSE IF t[e] = 44 THEN ParseMembers(t, SkipWs(t, e + 1), all)
    ELSE ParseFail

ParseElements(t, i, acc) ==
    LET v == ParseValue(t, i) IN
    IF ~v.ok THEN ParseFail
    ELSE LET e == SkipWs(t, v.next)
             all == Append(acc, [key |-> <<>>, val |-> v.val])
         IN
    IF e > Len(t) THEN ParseFail
    ELSE IF t[e] = 93 THEN ParseOk(JArr(all), e + 1)
    ELSE IF t[e] = 44 THEN ParseElements(t, e + 1, all)
    ELSE ParseFail

\* JSON.parse(text): ok is FALSE where JSON.parse throws a SyntaxError
JSONparse(text) ==
    LET r == ParseValue(text, 1) IN
    IF r.ok /\ SkipWs(text, r.next) = Len(text) + 1
    THEN [ok |-> TRUE, val |-> r.val]
    ELSE [ok |-> FALSE, val |-> Undefined]

\* data.key: the last member of that name, undefined when there is none
Prop(v, key) ==
    LET hits == {i \in 1..Len(v.m) : v.m[i].key = key} IN
    IF v.k # "obj" \/ hits = {} THEN Undefined
    ELSE v.m[CHOOSE i \in hits : \A j \in hits : j <= i].val

\* reading a property of null throws a TypeError
PropThrows(v) == v.k = "lit" /\ v.s = TextNull

IsZeroText(s) == \A i \in 1..Len(s) : s[i] \in {45, 46, 48}

Truthy(v) ==
    CASE v.k = "str" -> v.s # <<>>
      [] v.k = "num" -> ~IsZeroText(v.s)
      [] v.k = "lit" -> v.s = TextTrue
      [] v.k = "undefined" -> FALSE
      [] OTHER -> TRUE

\* the string that `'' + v` appends for a truthy v
ToText(v) ==
    CASE v.k = "obj" -> TextObject
      [] v.k = "arr" -> <<>>
      [] OTHER -> v.s

\* v || ''  used as a string
OrEmpty(v) == IF Truthy(v) THEN ToText(v) ELSE <<>>

(***************************************************************************)
(* Response bodies.  A body is a run of newline-terminated lines followed  *)
(* by a tail that no newline ends.                                         *)
(***************************************************************************)
\* data: {"type":"thinking","content":"a"}
LineThinking ==
    <<100, 97, 116, 97, 58, 32, 123, 34, 116, 121, 112, 101, 34, 58, 34, 116,
      104, 105, 110, 107, 105, 110, 103, 34, 44, 34, 99, 111, 110, 116, 101,
      110, 116, 34, 58, 34, 97, 34, 125>>
\* data: {"type":"content","content":"你"}    (你 is the bytes E4 BD A0)
LineContent ==
    <<100, 97, 116, 97, 58, 32, 123, 34, 116, 121, 112, 101, 34, 58, 34, 99,
      111, 110, 116, 101, 110, 116, 34, 44, 34, 99, 111, 110, 116, 101, 110,
      116, 34, 58, 34, 228, 189, 160, 34, 125>>
\* data: {"type":"done"}
LineDone ==
    <<100, 97, 116, 97, 58, 32, 123, 34, 116, 121, 112, 101, 34, 58, 34, 100,
      111, 110, 101, 34, 125>>
\* data: {"type":"error","content":"x"}
LineError ==
    <<100, 97, 116, 97, 58, 32, 123, 34, 116, 121, 112, 101, 34, 58, 34,
      101, 114, 114, 111, 114, 34, 44, 34, 99, 111, 110, 116, 101, 110,
      116, 34, 58, 34, 120, 34, 125>>
\* data: {"type":"done","content":"b"}
LineDoneText ==
    <<100, 97, 116, 97, 58, 32, 123, 34, 116, 121, 112, 101, 34, 58, 34,
      100, 111, 110, 101, 34, 44, 34, 99, 111, 110, 116, 101, 110, 116, 34,
      58, 34, 98, 34, 125>>
\* data: {"type":"done","content":""}
LineDoneEmpty ==
    <<100, 97, 116, 97, 58, 32, 123, 34, 116, 121, 112, 101, 34, 58, 34,
      100, 111, 110, 101, 34, 44, 34, 99, 111, 110, 116, 101, 110, 116, 34,
      58, 34, 34, 125>>
\* data: {"type":"content"}
LineContentBare ==
    <<100, 97, 116, 97, 58, 32, 123, 34, 116, 121, 112, 101, 34, 58, 34,
      99, 111, 110, 116, 101, 110, 116, 34, 125>>
\* data: {"type":"tool_call","tool_name":"t","arguments":{"q":1}}
LineToolCall ==
    <<100, 97, 116, 97, 58, 32, 123, 34, 116, 121, 112, 101, 34, 58, 34,
      116, 111, 111, 108, 95, 99, 97, 108, 108, 34, 44, 34, 116, 111, 111,
      108, 95, 110, 97, 109, 101, 34, 58, 34, 116, 34, 44, 34, 97, 114,
      103, 117, 109, 101, 110, 116, 115, 34, 58, 123, 34, 113, 34, 58, 49,
      125, 125>>
\* data: {"type":"tool_call","tool_name":"u"}
LineToolCallBare ==
    <<100, 97, 116, 97, 58, 32, 123, 34, 116, 121, 112, 101, 34, 58, 34,
      116, 111, 111, 108, 95, 99, 97, 108, 108, 34, 44, 34, 116, 111, 111,
      108, 95, 110, 97, 109, 101, 34, 58, 34, 117, 34, 125>>
\* data: {"type":"tool_result","tool_name":"t","result":"r","success":false,"duration":1}
LineToolResult ==
    <<100, 97, 116, 97, 58, 32, 123, 34, 116, 121, 112, 101, 34, 58, 34,
      116, 111, 111, 108, 95, 114, 101, 115, 117, 108, 116, 34, 44, 34,
      116, 111, 111, 108, 95, 110, 97, 109, 101, 34, 58, 34, 116, 34, 44,
      34, 114, 101, 115, 117, 108, 116, 34, 58, 34, 114, 34, 44, 34, 115,
      117, 99, 99, 101, 115, 115, 34, 58, 102, 97, 108, 115, 101, 44, 34,
      100, 117, 114, 97, 116, 105, 111, 110, 34, 58, 49, 125>>
\* data: {"type":"thinking_end","duration":2}
LineThinkingEnd ==
    <<100, 97, 116, 97, 58, 32, 123, 34, 116, 121, 112, 101, 34, 58, 34,
      116, 104, 105, 110, 107, 105, 110, 103, 95, 101, 110, 100, 34, 44,
      34, 100, 117, 114, 97, 116, 105, 111, 110, 34, 58, 50, 125>>
\* data: {"type":"start","session_id":"s"}
LineStart ==
    <<100, 97, 116, 97, 58, 32, 123, 34, 116, 121, 112, 101, 34, 58, 34,
      115, 116, 97, 114, 116, 34, 44, 34, 115, 101, 115, 115, 105, 111,
      110, 95, 105, 100, 34, 58, 34, 115, 34, 125>>
\* data: {"type":"start","session_id":"s1"}
LineStartS1 ==
    <<100, 97, 116, 97, 58, 32, 123, 34, 116, 121, 112, 101, 34, 58, 34,
      115, 116, 97, 114, 116, 34, 44, 34, 115, 101, 115, 115, 105, 111,
      110, 95, 105, 100, 34, 58, 34, 115, 49, 34, 125>>
\* data: {"type":"thinking","content":"step1"}
LineStep1 ==
    <<100, 97, 116, 97, 58, 32, 123, 34, 116, 121, 112, 101, 34, 58, 34,
      116, 104, 105, 110, 107, 105, 110, 103, 34, 44, 34, 99, 111, 110,
      116, 101, 110, 116, 34, 58, 34, 115, 116, 101, 112, 49, 34, 125>>
\* data: {"type":"thinking","content":"step2"}
LineStep2 ==
    <<100, 97, 116, 97, 58, 32, 123, 34, 116, 121, 112, 101, 34, 58, 34,
      116, 104, 105, 110, 107, 105, 110, 103, 34, 44, 34, 99, 111, 110,
      116, 101, 110, 116, 34, 58, 34, 115, 116, 101, 112, 50, 34, 125>>
\* data: {"type":"thinking_end","duration":2.0}
LineThinkingEnd2 ==
    <<100, 97, 116, 97, 58, 32, 123, 34, 116, 121, 112, 101, 34, 58, 34,
      116, 104, 105, 110, 107, 105, 110, 103, 95, 101, 110, 100, 34, 44,
      34, 100, 117, 114, 97, 116, 105, 111, 110, 34, 58, 50, 46, 48, 125>>
\* data: {"type":"content","content":"Hello"}
LineHello ==
    <<100, 97, 116, 97, 58, 32, 123, 34, 116, 121, 112, 101, 34, 58, 34,
      99, 111, 110, 116, 101, 110, 116, 34, 44, 34, 99, 111, 110, 116, 101,
      110, 116, 34, 58, 34, 72, 101, 108, 108, 111, 34, 125>>
\* data: {"type":"done","content":"Hello","session_id":"s1"}
LineDoneHello ==
    <<100, 97, 116, 97, 58, 32, 123, 34, 116, 121, 112, 101, 34, 58, 34,
      100, 111, 110, 101, 34, 44, 34, 99, 111, 110, 116, 101, 110, 116, 34,
      58, 34, 72, 101, 108, 108, 111, 34, 44, 34, 115, 101, 115, 115, 105,
      111, 110, 95, 105, 100, 34, 58, 34, 115, 49, 34, 125>>
\* data: {"type":"start","session_id":"s","title":"T"}
LineStartTitled ==
    <<100, 97, 116, 97, 58, 32, 123, 34, 116, 121, 112, 101, 34, 58, 34,
      115, 116, 97, 114, 116, 34, 44, 34, 115, 101, 115, 115, 105, 111,
      110, 95, 105, 100, 34, 58, 34, 115, 34, 44, 34, 116, 105, 116, 108,
      101, 34, 58, 34, 84, 34, 125>>
\* data: {"type":"done","content":"b","session_id":"s"}
LineDoneSession ==
    <<100, 97, 116, 97, 58, 32, 123, 34, 116, 121, 112, 101, 34, 58, 34,
      100, 111, 110, 101, 34, 44, 34, 99, 111, 110, 116, 101, 110, 116, 34,
      58, 34, 98, 34, 44, 34, 115, 101, 115, 115, 105, 111, 110, 95, 105,
      100, 34, 58, 34, 115, 34, 125>>
\* data: {"type":"done","session_id":"s","title":"U"}
LineDoneTitled ==
    <<100, 97, 116, 97, 58, 32, 123, 34, 116, 121, 112, 101, 34, 58, 34,
      100, 111, 110, 101, 34, 44, 34, 115, 101, 115, 115, 105, 111, 110,
      95, 105, 100, 34, 58, 34, 115, 34, 44, 34, 116, 105, 116, 108, 101,
      34, 58, 34, 85, 34, 125>>
\* data: {"type":"ping","content":"x","session_id":"n","title":"T"}
LinePing ==
    <<100, 97, 116, 97, 58, 32, 123, 34, 116, 121, 112, 101, 34, 58, 34,
      112, 105, 110, 103, 34, 44, 34, 99, 111, 110, 116, 101, 110, 116, 34,
      58, 34, 120, 34, 44, 34, 115, 101, 115, 115, 105, 111, 110, 95, 105,
      100, 34, 58, 34, 110, 34, 44, 34, 116, 105, 116, 108, 101, 34, 58,
      34, 84, 34, 125>>
\* data: {"content":"x","session_id":"n","title":"T"}
LineNoType ==
    <<100, 97, 116, 97, 58, 32, 123, 34, 99, 111, 110, 116, 101, 110, 116,
      34, 58, 34, 120, 34, 44, 34, 115, 101, 115, 115, 105, 111, 110, 95,
      105, 100, 34, 58, 34, 110, 34, 44, 34, 116, 105, 116, 108, 101, 34,
      58, 34, 84, 34, 125>>
\* data: {no
LineMalformed == <<100, 97, 116, 97, 58, 32, 123, 110, 111>>
\* data:{}      (no space after the colon)
LineNoSpace == <<100, 97, 116, 97, 58, 123, 125>>
\* the empty line that separates two server-sent events
LineBlank == <<>>

\* the lines and tails of the bodies the decoder is checked on
DecodeLines == {LineContent, LineDone, LineMalformed, LineNoSpace, LineBlank}
DecodeTails == {<<>>, LineDone}

\* the lines and tails of the bodies a whole turn is checked on
TurnLines ==
    {LineThinking, LineContent, LineDone, LineError, LineDoneText, LineDoneEmpty}
TurnTails == {<<>>}

\* the lines the handler that builds blocks is checked on
BlockLines ==
    {LineThinking, LineContent, LineContentBare, LineToolCall, LineToolCallBare,
     LineToolResult, LineThinkingEnd, LineStart, LineError, LineDoneText}

\* the lines the reconciliation of the session list is checked on
SessionLines ==
    {LineStart, LineStartTitled, LineStartS1, LineDoneSession, LineDoneTitled,
     LinePing, LineNoType, LineContent}

\* the events of a turn that thinks, answers "Hello" and names its session
ScenarioLines ==
    <<LineStartS1, LineStep1, LineStep2, LineThinkingEnd2, LineHello, LineDoneHello>>

RECURSIVE Bodies(_, _)
Bodies(lines, n) ==
    IF n = 0 THEN {<<>>}
    ELSE Bodies(lines, n - 1) \cup
         {l \o <<NL>> \o b : l \in lines, b \in Bodies(lines, n - 1)}

\* data: null
LineNull == <<100, 97, 116, 97, 58, 32, 110, 117, 108, 108>>
\* the lines the decoder is checked on when the handler throws: JSON.parse
\* accepts `null`, and onChunk throws at `data.type`
ThrowLines == {LineNull, LineContent, LineDone}
ThrowBodies == Bodies(ThrowLines, MaxLines)

DecodeBodies == {b \o t : b \in Bodies(DecodeLines, MaxDecodeLines), t \in DecodeTails}
TurnBodies == {b \o t : b \in Bodies(TurnLines, MaxLines), t \in TurnTails}

(***************************************************************************)
(* What the user types and attaches.                                       *)
(***************************************************************************)
\* "hi"
MessageText == <<104, 105>>
\* "abcdefghijklm": a text longer than the twelve characters a title keeps
LongText == <<97, 98, 99, 100, 101, 102, 103, 104, 105, 106, 107, 108, 109>>
\* the texts a turn is submitted with
SessionMessages == {MessageText, LongText, <<>>}
\* "f.txt"
FileName == <<102, 46, 116, 120, 116>>
\* "\n[文件已上传: " ... "]"  and  "\n[文件上传失败: " ... "]"
NoteUploaded(name) ==
    <<10, 91, 25991, 20214, 24050, 19978, 20256, 58, 32>> \o name \o <<93>>
NoteUploadFailed(name) ==
    <<10, 91, 25991, 20214, 19978, 20256, 22833, 36133, 58, 32>> \o name \o <<93>>
\* "新会话"
TitleDefault == <<26032, 20250, 35805>>

\* the texts shown in the error toast
ErrCreateSession == "create-session-failed"
ErrLoadSessions == "load-sessions-failed"
ErrSend == "send-message-failed"
ErrStopped == "generation-stopped"
ErrDetail == "detail-of-the-error-body"
ErrNetwork == "Failed to fetch"
ErrNotJson == "Unexpected token < in JSON at position 0"
NoErrorShown == "null"

NoError == [name |-> "none", message |-> ""]
AbortError == [name |-> "AbortError", message |-> "The user aborted a request."]

VARIABLES
    \* App.vue
    messages, isStreaming, error, sessions, currentSessionId, showAssets,
    \* timers started by handleStop that have not run yet
    timers,
    \* the session list of the server
    serverSessions,
    \* ChatInput: whether its abortController variable holds a controller,
    \* and whether the signal of the turn's controller is aborted
    abortController, aborted,
    \* handleSendMessage: position, arguments and closure variables
    hsPc, message, filesLeft, contentWithFiles, currentContent, currentThinking,
    \* sendMessage: position, error it rejected with, decoder and buffer
    smPc, smErr, decoder, buffer,
    \* the response body and the number of its bytes handed to the reader
    stream, pos,
    \* the calls of onChunk so far: the line and the decoded value
    delivered,
    \* the state of the signal when reader.read() was last called
    readIssuedAborted,
    \* closure variables of the handleSendMessage that builds blocks
    currentToolCalls, currentBlock, assistantMessageCreated,
    \* the calls of the session API that are under way, and how many calls
    \* have been made
    inFlight, callsIssued,
    \* every call of handleSendMessage: its position, arguments and closure
    \* variables; Date.now(); the turn whose controller ChatInput holds; the
    \* getChatHistory calls under way
    turns, clock, inputController, historyCalls,
    \* ChatInput: the files shown above the input, the position of
    \* handleFileSelect; the createSession calls that handleCreateSession
    \* awaits
    uploadedFiles, fileSelect, createCalls

appVars == <<messages, isStreaming, error, sessions, currentSessionId, showAssets, timers>>
inputVars == <<abortController, aborted>>
hsVars == <<hsPc, message, filesLeft, contentWithFiles, currentContent, currentThinking>>
smVars == <<smPc, smErr, decoder, buffer, stream, pos, delivered, readIssuedAborted>>
blockVars == <<currentToolCalls, currentBlock, assistantMessageCreated>>
apiVars == <<inFlight, callsIssued>>
turnVars == <<turns, clock, inputController, historyCalls>>
fileVars == <<uploadedFiles, fileSelect, createCalls>>
vars == <<appVars, serverSessions, inputVars, hsVars, smVars, blockVars, apiVars,
          turnVars, fileVars>>

\* handleFileSelect is not running
NoFileSelect == [pc |-> "idle", file |-> 0, left |-> 0, picked |-> 0]

\* getChatHistory has not been called
NoHistoryCalls == [issued |-> 0, pending |-> 0]

(***************************************************************************)
(* handleSendMessage: the messages of the turn and the onChunk handler.    *)
(***************************************************************************)
\* `user-${Date.now()}` and `assistant-${Date.now()}`
userMsgId == [prefix |-> "user", time |-> 0]
assistantMsgId == [prefix |-> "assistant", time |-> 0]

userMessage(content) ==
    [id |-> userMsgId, role |-> "user", content |-> content, created_at |-> "now"]

assistantMessage ==
    [id |-> assistantMsgId, role |-> "assistant", content |-> <<>>,
     created_at |-> "null", thinking |-> <<>>]

\* messages.value.findIndex(m => m.id === id), 0 for -1
FindIndex(msgs, id) ==
    LET hits == {i \in 1..Len(msgs) : msgs[i].id = id} IN
    IF hits = {} THEN 0 ELSE CHOOSE i \in hits : \A j \in hits : i <= j

\* messages.value.filter(m => m.id !== id)
RECURSIVE FilterOut(_, _)
FilterOut(msgs, id) ==
    IF msgs = <<>> THEN <<>>
    ELSE IF Head(msgs).id = id THEN FilterOut(Tail(msgs), id)
    ELSE <<Head(msgs)>> \o FilterOut(Tail(msgs), id)

\* a mutation of EventType: an event without a type counts as content
EventTypeContentByDefault(data) ==
    LET v == Prop(data, KeyType) IN IF v.k = "str" THEN v.s ELSE TypeContent

\* data.type || ''  as far as the comparisons with the known types go
EventType(data) ==
    LET v == Prop(data, KeyType) IN IF v.k = "str" THEN v.s ELSE <<>>

\* a mutation of FinalContent: the text of the done event is not looked at
FinalContentAccumulated(data, accumulated) == accumulated

\* const finalContent = data.content || currentContent
FinalContent(data, accumulated) ==
    IF Truthy(Prop(data, KeyContent)) THEN ToText(Prop(data, KeyContent))
    ELSE accumulated

\* the callback handed to sendMessage; h holds messages, currentContent,
\* currentThinking
OnChunkFor(id, h, data) ==
    IF PropThrows(data) THEN [h |-> h, threw |-> TRUE]
    ELSE LET eventType == EventType(data)
             idx == FindIndex(h.messages, id)
         IN
    IF eventType = TypeThinking THEN
        LET t == h.currentThinking \o OrEmpty(Prop(data, KeyContent)) IN
        [h |-> [h EXCEPT !.currentThinking = t,
                         !.messages = IF idx = 0 THEN @
                                      ELSE [@ EXCEPT ![idx].thinking = t]],
         threw |-> FALSE]
    ELSE IF eventType = TypeContent THEN
        LET c == h.currentContent \o OrEmpty(Prop(data, KeyContent)) IN
        [h |-> [h EXCEPT !.currentContent = c,
                         !.messages = IF idx = 0 THEN @
                                      ELSE [@ EXCEPT ![idx].content = c]],
         threw |-> FALSE]
    ELSE IF eventType = TypeDone THEN
        LET finalContent == FinalContent(data, h.currentContent) IN
        [h |-> [h EXCEPT !.messages = IF idx = 0 THEN @
                                      ELSE [@ EXCEPT ![idx].content = finalContent,
                                                     ![idx].created_at = "now"]],
         threw |-> FALSE]
    ELSE [h |-> h, threw |-> FALSE]

\* the callback of the turn the other specifications follow
OnChunk(h, data) == OnChunkFor(assistantMsgId, h, data)

\* a mutation of CatchSend: the assistant message is left in the list
CatchSendKeep(e, msgs, err) ==
    IF e.name = "AbortError" THEN [messages |-> msgs, error |-> err]
    ELSE [messages |-> msgs,
          error |-> IF e.message # "" THEN e.message ELSE ErrSend]

\* catch (e) of handleSendMessage, up to finally
CatchSend(e, msgs, err) ==
    IF e.name = "AbortError" THEN [messages |-> msgs, error |-> err]
    ELSE [messages |-> FilterOut(msgs, assistantMsgId),
          error |-> IF e.message # "" THEN e.message ELSE ErrSend]

(***************************************************************************)
(* handleSendMessage as kept in PptPreview.vue: the assistant message is   *)
(* created by the first event that needs it and is built as a list of      *)
(* blocks.  b holds messages, error, sessions, currentSessionId and the    *)
(* closure variables currentThinking, currentContent, currentToolCalls,    *)
(* currentBlock and assistantMessageCreated.  currentBlock is the place of *)
(* the block it refers to in the blocks of the assistant message, 0 for    *)
(* null: the object is pushed when it is made and mutated in place after.  *)
(* The values of a block are JSON values; the texts of the events of the   *)
(* model are strings, so `+` is the concatenation of strings.              *)
(***************************************************************************)
userMessageWithFiles(content, files) ==
    [id |-> userMsgId, role |-> "user", content |-> content, files |-> files,
     created_at |-> "now"]

loadingAssistantMessage ==
    [id |-> assistantMsgId, role |-> "assistant", content |-> <<>>,
     created_at |-> "null", thinking |-> <<>>, tool_calls |-> <<>>,
     blocks |-> <<>>, loading |-> TRUE, thinking_duration |-> Undefined]

ensureAssistantMessage(b) ==
    IF b.assistantMessageCreated THEN b
    ELSE [b EXCEPT !.messages = Append(@, loadingAssistantMessage),
                   !.assistantMessageCreated = TRUE]

\* messages.value.findIndex(m => m.id === assistantMsgId), 0 for -1;
\* assistantMsgId is null until the message is created
AssistantIndex(b) ==
    IF b.assistantMessageCreated THEN FindIndex(b.messages, assistantMsgId) ELSE 0

\* v || ''  and  v || {}  as values
OrEmptyValue(v) == IF Truthy(v) THEN v ELSE JStr(<<>>)
OrEmptyObject(v) == IF Truthy(v) THEN v ELSE JObj(<<>>)

\* the argument of addBlock: the properties the caller did not write
NoData ==
    [content |-> Undefined, tool_name |-> Undefined, arguments |-> Undefined,
     result |-> Undefined, success |-> Undefined, duration |-> Undefined]

\* { type, content: '', ...data }
NewBlock(type, data) ==
    [type |-> type,
     content |-> IF data.content = Undefined THEN JStr(<<>>) ELSE data.content,
     tool_name |-> data.tool_name, arguments |-> data.arguments,
     result |-> data.result, success |-> data.success,
     duration |-> data.duration]

\* the else branch of addBlock: data is merged into the current block
MergeBlock(cur, data) ==
    [cur EXCEPT
        !.content = JStr(ToText(OrEmptyValue(@)) \o ToText(OrEmptyValue(data.content))),
        !.tool_name = IF Truthy(data.tool_name) THEN data.tool_name ELSE @,
        !.arguments = IF Truthy(data.arguments) THEN data.arguments ELSE @,
        !.result = IF data.result # Undefined THEN data.result ELSE @,
        !.success = IF data.success # Undefined THEN data.success ELSE @,
        !.duration = IF data.duration # Undefined THEN data.duration ELSE @]

\* a mutation of StartsBlock: every event starts a block
StartsBlockAlways(e, type) == TRUE

\* a mutation of StartsBlock: an event starts a block only when the message
\* has no block of its type yet
StartsBlockOncePerType(e, type) ==
    \A k \in 1..Len(e.messages[AssistantIndex(e)].blocks) :
        e.messages[AssistantIndex(e)].blocks[k].type # type

\* `!currentBlock || currentBlock.type !== type`, e being the state after
\* ensureAssistantMessage
StartsBlock(e, type) ==
    \/ e.currentBlock = 0
    \/ e.messages[AssistantIndex(e)].blocks[e.currentBlock].type # type

\* addBlock after ensureAssistantMessage
PushOrMerge(e, idx, type, data) ==
    IF StartsBlock(e, type)
    THEN [e EXCEPT !.messages[idx].blocks = Append(@, NewBlock(type, data)),
                   !.currentBlock = Len(e.messages[idx].blocks) + 1]
    ELSE [e EXCEPT !.messages[idx].blocks[e.currentBlock] = MergeBlock(@, data)]

addBlock(b, type, data) ==
    PushOrMerge(ensureAssistantMessage(b),
                AssistantIndex(ensureAssistantMessage(b)), type, data)

\* blocks.find(b => b.type === 'thinking'), 0 for undefined
FirstThinking(blocks) ==
    LET hits == {k \in 1..Len(blocks) : blocks[k].type = TypeThinking} IN
    IF hits = {} THEN 0 ELSE CHOOSE k \in hits : \A j \in hits : k <= j

\* a mutation of SetDuration: the duration is not written
SetDurationNowhere(blocks, k, duration) == blocks

\* thinkingBlock.duration = duration, when the block was found at k
SetDuration(blocks, k, duration) ==
    IF k = 0 THEN blocks ELSE [blocks EXCEPT ![k].duration = duration]

updateThinkingDuration(b, duration) ==
    LET idx == AssistantIndex(b) IN
    IF idx = 0 THEN b
    ELSE [b EXCEPT !.messages[idx].blocks = SetDuration(@, FirstThinking(@), duration),
                   !.messages[idx].thinking_duration = duration]

\* a mutation of FindSession: the session is never found in the list
FindSessionNever(list, id) == 0

\* sessions.value.findIndex(s => s.session_id === id), 0 for -1
FindSession(list, id) ==
    LET hits == {i \in 1..Len(list) : list[i].session_id = id} IN
    IF hits = {} THEN 0 ELSE CHOOSE i \in hits : \A j \in hits : i <= j

\* data.title || (message.substring(0, 12) + '...') || '新会话'
SessionTitle(data, text) ==
    IF Truthy(Prop(data, KeyTitle)) THEN Prop(data, KeyTitle)
    ELSE JStr(SubSeq(text, 1, IF Len(text) < 12 THEN Len(text) ELSE 12)
              \o <<46, 46, 46>>)

\* `if (data.session_id) { ... }` of the start and done branches
SeeSession(b, data, text) ==
    LET id == Prop(data, KeySessionId)
        at == FindSession(b.sessions, id)
    IN IF ~Truthy(id) THEN b
       ELSE [b EXCEPT
               !.currentSessionId = id,
               !.sessions =
                   IF at = 0
                   THEN <<[session_id |-> id, title |-> SessionTitle(data, text),
                           created_at |-> "now"]>> \o @
                   ELSE IF Truthy(Prop(data, KeyTitle))
                   THEN [@ EXCEPT ![at].title = Prop(data, KeyTitle)]
                   ELSE @]

OnError(b, data) ==
    [b EXCEPT !.error = IF Truthy(Prop(data, KeyContent))
                        THEN ToText(Prop(data, KeyContent)) ELSE ErrSend]

OnThinking(b, data) ==
    LET t == b.currentThinking \o OrEmpty(Prop(data, KeyContent))
        a == addBlock([b EXCEPT !.currentThinking = t], TypeThinking,
                      [NoData EXCEPT !.content = OrEmptyValue(Prop(data, KeyContent))])
    IN [a EXCEPT !.messages[AssistantIndex(a)].thinking = t]

OnThinkingEnd(b, data) ==
    IF Truthy(Prop(data, KeyDuration))
    THEN updateThinkingDuration(b, Prop(data, KeyDuration))
    ELSE b

OnContent(b, data) ==
    LET c == b.currentContent \o OrEmpty(Prop(data, KeyContent))
        a == addBlock([b EXCEPT !.currentContent = c], TypeContent,
                      [NoData EXCEPT !.content = OrEmptyValue(Prop(data, KeyContent))])
    IN [a EXCEPT !.messages[AssistantIndex(a)].content = c]

OnToolCall(b, data) ==
    LET toolCall == [tool_name |-> OrEmptyValue(Prop(data, KeyToolName)),
                     arguments |-> OrEmptyObject(Prop(data, KeyArguments)),
                     result |-> JStr(<<>>), success |-> JLit(TextTrue)]
        calls == Append(b.currentToolCalls, toolCall)
        a == addBlock([b EXCEPT !.currentToolCalls = calls], TypeToolCall,
                      [NoData EXCEPT
                          !.tool_name = OrEmptyValue(Prop(data, KeyToolName)),
                          !.arguments = OrEmptyObject(Prop(data, KeyArguments)),
                          !.content = JStr(<<>>)])
    IN [a EXCEPT !.messages[AssistantIndex(a)].tool_calls = calls]

\* data.success !== false
NotFalse(v) ==
    IF v.k = "lit" /\ v.s = TextFalse THEN JLit(TextFalse) ELSE JLit(TextTrue)

OnToolResult(b, data) ==
    IF b.currentToolCalls = <<>> THEN b
    ELSE
    LET calls == [b.currentToolCalls EXCEPT
                     ![Len(b.currentToolCalls)].result = OrEmptyValue(Prop(data, KeyResult)),
                     ![Len(b.currentToolCalls)].success = NotFalse(Prop(data, KeySuccess))]
        a == addBlock([b EXCEPT !.currentToolCalls = calls], TypeToolResult,
                      [NoData EXCEPT
                          !.tool_name = OrEmptyValue(Prop(data, KeyToolName)),
                          !.result = OrEmptyValue(Prop(data, KeyResult)),
                          !.success = NotFalse(Prop(data, KeySuccess)),
                          !.duration = Prop(data, KeyDuration),
                          !.content = OrEmptyValue(Prop(data, KeyResult))])
    IN [a EXCEPT !.messages[AssistantIndex(a)].tool_calls = calls]

\* the done branch up to `if (data.session_id)`
CompleteMessage(b, data) ==
    LET idx == AssistantIndex(b)
        d == Prop(data, KeyThinkingDuration)
    IN IF idx = 0 THEN b
       ELSE [b EXCEPT
               !.messages[idx].blocks =
                   IF Truthy(d) THEN SetDuration(@, FirstThinking(@), d) ELSE @,
               !.messages[idx].content = FinalContent(data, b.currentContent),
               !.messages[idx].created_at = "now",
               !.messages[idx].loading = FALSE,
               !.messages[idx].thinking_duration = IF Truthy(d) THEN d ELSE @]

OnDone(b, data, text) == SeeSession(CompleteMessage(b, data), data, text)

\* the callback handed to sendMessage; text is the message of the user
OnChunkBlocks(b, data, text) ==
    IF PropThrows(data) THEN [h |-> b, threw |-> TRUE]
    ELSE [h |-> CASE EventType(data) = TypeErrorEvent -> OnError(b, data)
                  [] EventType(data) = TypeStart -> SeeSession(b, data, text)
                  [] EventType(data) = TypeThinking -> OnThinking(b, data)
                  [] EventType(data) = TypeThinkingEnd -> OnThinkingEnd(b, data)
                  [] EventType(data) = TypeContent -> OnContent(b, data)
                  [] EventType(data) = TypeToolCall -> OnToolCall(b, data)
                  [] EventType(data) = TypeToolResult -> OnToolResult(b, data)
                  [] EventType(data) = TypeDone -> OnDone(b, data, text)
                  [] OTHER -> b,
          threw |-> FALSE]

\* catch (e) of this handleSendMessage, up to finally
CatchSendBlocks(e, b) ==
    IF e.name = "AbortError" THEN b
    ELSE [b EXCEPT
            !.messages = IF b.assistantMessageCreated
                         THEN FilterOut(@, assistantMsgId) ELSE @,
            !.error = IF e.message # "" THEN e.message ELSE ErrSend]

\* a mutation of OrderKey: the blocks of the answer sort before the others
OrderKeyContentFirst(block) == IF block.type = TypeContent THEN 0 ELSE 1

\* computed sortedBlocks of ChatMessage: a stable sort on `order || 0`;
\* addBlock gives a block no order, so every key is 0
OrderKey(block) == 0

\* the place of a block of key k in the sorted list: behind every block whose
\* key is not larger
InsertSorted(sorted, block) ==
    LET n == Cardinality({i \in 1..Len(sorted) : OrderKey(sorted[i]) <= OrderKey(block)})
    IN SubSeq(sorted, 1, n) \o <<block>> \o SubSeq(sorted, n + 1, Len(sorted))

RECURSIVE SortFrom(_, _, _)
SortFrom(blocks, i, sorted) ==
    IF i > Len(blocks) THEN sorted
    ELSE SortFrom(blocks, i + 1, InsertSorted(sorted, blocks[i]))

sortedBlocks(blocks) == SortFrom(blocks, 1, <<>>)

(***************************************************************************)
(* sendMessage: the body of the read loop.                                 *)
(***************************************************************************)
\* a mutation of CatchLine: the error leaves the loop
CatchLineRethrow(e) == e

\* catch (e) around JSON.parse and onChunk: the error is logged, the loop
\* goes on with the next line
CatchLine(e) == NoError

\* a mutation of PayloadOf: the field name alone makes a data line
PayloadOfField(line) ==
    IF StartsWith(line, DataField)
    THEN [data |-> TRUE, text |-> Slice(line, 5)]
    ELSE [data |-> FALSE, text |-> <<>>]

\* line.startsWith('data: ') and line.slice(6)
PayloadOf(line) ==
    IF StartsWith(line, DataPrefix)
    THEN [data |-> TRUE, text |-> Slice(line, 6)]
    ELSE [data |-> FALSE, text |-> <<>>]

\* a mutation of AfterOnChunk: the try block covers JSON.parse alone, what
\* the handler throws leaves the loop
AfterOnChunkUncaught(line, log, data, a) ==
    [h |-> a.h, log |-> Append(log, [line |-> line, data |-> data]),
     thrown |-> IF a.threw
                THEN [name |-> "TypeError",
                      message |-> "Cannot read properties of null"]
                ELSE NoError]

\* lines 78-79 after onChunk(data) has run, a being what the handler did
AfterOnChunk(line, log, data, a) ==
    [h |-> a.h, log |-> Append(log, [line |-> line, data |-> data]),
     thrown |-> IF a.threw
                THEN CatchLine([name |-> "TypeError",
                                message |-> "Cannot read properties of null"])
                ELSE NoError]

\* lines 76-82: the try block of a data line, p being what JSON.parse made
\* of its payload
TryLine(line, h, log, p) ==
    IF ~p.ok
    THEN [h |-> h, log |-> log,
          thrown |-> CatchLine([name |-> "SyntaxError", message |-> "Unexpected token"])]
    ELSE AfterOnChunk(line, log, p.val, OnChunk(h, p.val))

\* one line of `for (const line of lines)`
DoLine(line, h, log) ==
    IF PayloadOf(line).data
    THEN TryLine(line, h, log, JSONparse(PayloadOf(line).text))
    ELSE [h |-> h, log |-> log, thrown |-> NoError]

RECURSIVE RunLines(_, _, _, _)

\* the loop over the lines after lines[i] has been handled with result r
NextLine(lines, i, r) ==
    IF r.thrown # NoError THEN r ELSE RunLines(lines, i + 1, r.h, r.log)

\* for (const line of lines), from lines[i] on
RunLines(lines, i, h, log) ==
    IF i > Len(lines) THEN [h |-> h, log |-> log, thrown |-> NoError]
    ELSE NextLine(lines, i, DoLine(lines[i], h, log))

\* buffer = lines.pop() || ''
Remainder(lines) == lines[Len(lines)]

\* a mutation of KeepLast: the last piece is read (lines[lines.length - 1])
\* but not popped, so it is dispatched with the lines before it
KeepLastNoPop(st, lines, h, log) ==
    [decoder |-> st, buffer |-> Remainder(lines), run |-> RunLines(lines, 1, h, log)]

\* lines 72-83: the last piece is kept as the buffer, the pieces before it
\* are dispatched
KeepLast(st, lines, h, log) ==
    [decoder |-> st, buffer |-> Remainder(lines),
     run |-> RunLines(SubSeq(lines, 1, Len(lines) - 1), 1, h, log)]

\* lines 70-71: the decoded text d.text is appended to the buffer, which is
\* split at the newlines
SplitBuffer(buf, d, h, log) == KeepLast(d.st, Split(buf \o d.text), h, log)

\* lines 69-83: decode the chunk, split the buffer, dispatch the lines
ProcessChunk(dec, buf, h, log, bytes) ==
    SplitBuffer(buf, DecodeStream(dec, bytes), h, log)

\* lines 62-65: the test made before every reader.read()
StopBeforeRead(sig) == sig

\* a mutation of AtEnd: the text left in the buffer is dispatched as a line
AtEndFlush(buf) == <<buf>>

\* `if (done) break`: the lines dispatched when the body has ended
AtEnd(buf) == <<>>

\* a mutation of CatchLoop: after an AbortError the read is requested again
CatchLoopRetry(e) ==
    IF e.name = "AbortError" THEN [pc |-> "read", e |-> NoError]
    ELSE [pc |-> "rejected", e |-> e]

\* a mutation of CatchLoop: every error is thrown on
CatchLoopRethrow(e) == [pc |-> "rejected", e |-> e]

\* catch (e) around the loop: where sendMessage is after it, and the error
\* it throws
CatchLoop(e) ==
    IF e.name = "AbortError" THEN [pc |-> "stopped", e |-> NoError]
    ELSE [pc |-> "rejected", e |-> e]

\* a mutation of FetchSignal: fetch is not given the signal
NoFetchSignal(sig) == FALSE

\* chat.js:42-48: fetch is given the signal of the turn, sig being whether
\* that signal is aborted; the transport sees what it is given
FetchSignal(sig) == sig

(***************************************************************************)
(* The turn as a state machine.  A step runs from one suspension point     *)
(* (await) of handleSendMessage / sendMessage to the next; event handlers  *)
(* of the page run between two such steps.  One turn is followed, from     *)
(* the click on the send button to the end of handleSendMessage.           *)
(*                                                                         *)
(* Aborting the signal that fetch was given rejects a pending fetch and    *)
(* puts the response body in the errored state, which drops the chunks     *)
(* not yet read: from then on every reader.read(), pending or new,         *)
(* rejects with an AbortError.                                             *)
(***************************************************************************)
H == [messages |-> messages, currentContent |-> currentContent,
      currentThinking |-> currentThinking]

Init ==
    /\ messages = <<>>
    /\ isStreaming = FALSE
    /\ error = NoErrorShown
    /\ \E have, selected \in BOOLEAN :
        /\ serverSessions = IF have THEN <<[session_id |-> "s1", title |-> TitleDefault]>> ELSE <<>>
        /\ sessions = serverSessions
        /\ currentSessionId = IF have /\ selected THEN "s1" ELSE "null"
    /\ showAssets = FALSE
    /\ timers = 0
    /\ abortController = "null"
    /\ aborted = FALSE
    /\ hsPc = "idle"
    /\ message = <<>>
    /\ filesLeft = 0
    /\ contentWithFiles = <<>>
    /\ currentContent = <<>>
    /\ currentThinking = <<>>
    /\ smPc = "idle"
    /\ smErr = NoError
    /\ decoder = NoPending
    /\ buffer = <<>>
    /\ stream = <<>>
    /\ pos = 0
    /\ delivered = <<>>
    /\ readIssuedAborted = FALSE
    /\ currentToolCalls = <<>>
    /\ currentBlock = 0
    /\ assistantMessageCreated = FALSE
    /\ inFlight = {}
    /\ callsIssued = 0
    /\ turns = <<>>
    /\ clock = 0
    /\ inputController = 0
    /\ historyCalls = NoHistoryCalls
    /\ uploadedFiles = <<>>
    /\ fileSelect = NoFileSelect
    /\ createCalls = 0

\* a mutation of Settled: the finally does not reset isStreaming
SettledStillStreaming(result, e, msgs) ==
    LET c == IF result = "rejected" THEN CatchSend(e, msgs, error)
             ELSE [messages |-> msgs, error |-> error]
    IN /\ smPc' = result
       /\ smErr' = e
       /\ messages' = c.messages
       /\ error' = c.error
       /\ isStreaming' = isStreaming
       /\ hsPc' = "reload"

\* handleSendMessage from its catch to `await loadSessions()`, entered when
\* sendMessage has settled as result: "done" (the body has ended), "stopped"
\* (it returned on an abort) or "rejected" with e
Settled(result, e, msgs) ==
    LET c == IF result = "rejected" THEN CatchSend(e, msgs, error)
             ELSE [messages |-> msgs, error |-> error]
    IN /\ smPc' = result
       /\ smErr' = e
       /\ messages' = c.messages
       /\ error' = c.error
       /\ isStreaming' = FALSE
       /\ hsPc' = "reload"

\* App.vue:172-198: both messages are pushed, isStreaming is set and
\* sendMessage is called; fetch rejects at once when the signal sig of the
\* turn is aborted already
PushAndSend(content, sig) ==
    LET msgs == messages \o <<userMessage(content), assistantMessage>> IN
    /\ contentWithFiles' = content
    /\ currentContent' = <<>>
    /\ currentThinking' = <<>>
    /\ IF FetchSignal(sig)
       THEN Settled("rejected", AbortError, msgs)
       ELSE /\ messages' = msgs
            /\ isStreaming' = TRUE
            /\ hsPc' = "send"
            /\ smPc' = "fetch"
            /\ UNCHANGED <<error, smErr>>
    /\ UNCHANGED <<decoder, buffer, stream, pos, delivered, readIssuedAborted>>

\* App.vue:157-170: after ensureCurrentSession, wait for the next upload or
\* go on to the stream
AfterEnsure(content, left, sig) ==
    /\ filesLeft' = left
    /\ IF left > 0
       THEN /\ hsPc' = "upload"
            /\ contentWithFiles' = content
            /\ UNCHANGED <<messages, isStreaming, error, currentContent,
                           currentThinking, smVars>>
       ELSE PushAndSend(content, sig)

\* ChatInput.send and handleSendMessage up to its first suspension
Send(text, nfiles) ==
    /\ hsPc = "idle"
    /\ ~showAssets
    /\ ~isStreaming
    /\ text # <<>> \/ nfiles > 0
    /\ abortController' = "live"
    /\ aborted' = FALSE
    /\ message' = text
    /\ IF currentSessionId = "null"
       THEN /\ hsPc' = "ensure"
            /\ filesLeft' = nfiles
            /\ contentWithFiles' = text
            /\ UNCHANGED <<messages, isStreaming, error, currentContent,
                           currentThinking, smVars>>
       ELSE AfterEnsure(text, nfiles, FALSE)
    /\ UNCHANGED <<sessions, currentSessionId, showAssets, timers, serverSessions>>
    /\ UNCHANGED <<blockVars, apiVars, turnVars, fileVars>>

\* message.substring(0, 5) || '新会话'
InitialTitle(text) ==
    IF text = <<>> THEN TitleDefault
    ELSE SubSeq(text, 1, IF Len(text) < 5 THEN Len(text) ELSE 5)

\* a mutation of Unshift: the record takes the place of the list
UnshiftReplacing(list, record) == <<record>>

\* sessions.value.unshift(record)
Unshift(list, record) == <<record>> \o list

\* ensureCurrentSession: createSession('') has answered
CreateSessionOk ==
    /\ hsPc = "ensure"
    /\ currentSessionId' = "s2"
    /\ sessions' = Unshift(sessions, [session_id |-> "s2", title |-> InitialTitle(message)])
    /\ serverSessions' = <<[session_id |-> "s2", title |-> <<>>]>> \o serverSessions
    /\ AfterEnsure(message, filesLeft, aborted)
    /\ UNCHANGED <<showAssets, timers, inputVars, message>>
    /\ UNCHANGED <<blockVars, apiVars, turnVars, fileVars>>

\* ensureCurrentSession: createSession('') has failed
CreateSessionFail ==
    /\ hsPc = "ensure"
    /\ error' = ErrCreateSession
    /\ hsPc' = "end"
    /\ UNCHANGED <<messages, isStreaming, sessions, currentSessionId, showAssets,
                   timers, serverSessions, inputVars, message, filesLeft,
                   contentWithFiles, currentContent, currentThinking, smVars>>
    /\ UNCHANGED <<blockVars, apiVars, turnVars, fileVars>>

\* App.vue:161-169: uploadFile has answered (ok) or failed
UploadDone(ok) ==
    /\ hsPc = "upload"
    /\ AfterEnsure(contentWithFiles \o (IF ok THEN NoteUploaded(FileName)
                                        ELSE NoteUploadFailed(FileName)),
                   filesLeft - 1, aborted)
    /\ UNCHANGED <<sessions, currentSessionId, showAssets, timers,
                   serverSessions, inputVars, message>>
    /\ UNCHANGED <<blockVars, apiVars, turnVars, fileVars>>

\* the chunk sizes the transport hands over when left bytes are left
ChunkSizes(left) == {n \in 1..MaxChunk : n <= left} \cup {left}
TurnChunkSizes(left) == {n \in {TurnChunk} : n <= left} \cup {left}

\* chat.js:51-67: the response is ok, the body of the server is now fixed;
\* the reader is taken and the first read is requested
FetchOk(bodies) ==
    /\ smPc = "fetch"
    /\ ~FetchSignal(aborted)
    /\ \E b \in bodies : stream' = b
    /\ pos' = 0
    /\ decoder' = NoPending
    /\ buffer' = <<>>
    /\ IF StopBeforeRead(aborted)
       THEN /\ Settled("stopped", NoError, messages)
            /\ UNCHANGED readIssuedAborted
       ELSE /\ smPc' = "read"
            /\ readIssuedAborted' = aborted
            /\ UNCHANGED <<messages, isStreaming, error, hsPc, smErr>>
    /\ UNCHANGED <<sessions, currentSessionId, showAssets, timers, serverSessions,
                   inputVars, message, filesLeft, contentWithFiles,
                   currentContent, currentThinking, delivered>>
    /\ UNCHANGED <<blockVars, apiVars, turnVars, fileVars>>

\* chat.js:51-54: the status is an error, the error body is awaited
FetchHttpError ==
    /\ smPc = "fetch"
    /\ ~FetchSignal(aborted)
    /\ smPc' = "errbody"
    /\ UNCHANGED <<appVars, serverSessions, inputVars, hsVars, smErr, decoder,
                   buffer, stream, pos, delivered, readIssuedAborted>>
    /\ UNCHANGED <<blockVars, apiVars, turnVars, fileVars>>

\* what `await response.json()` can make of the body of an error response
ErrorBodies == {"detail", "nodetail", "unparsable"}

\* chat.js:52-53: the error thrown for the error body
ErrorOfBody(body) ==
    IF body = "unparsable" THEN [name |-> "SyntaxError", message |-> ErrNotJson]
    ELSE [name |-> "Error",
          message |-> IF body = "detail" THEN ErrDetail ELSE ErrSend]

\* chat.js:52-53: the error body has arrived: JSON with a detail, JSON
\* without one, or text that is not JSON
ErrorBody(body) ==
    /\ smPc = "errbody"
    /\ ~FetchSignal(aborted)
    /\ Settled("rejected", ErrorOfBody(body), messages)
    /\ UNCHANGED <<sessions, currentSessionId, showAssets, timers, serverSessions,
                   inputVars, message, filesLeft, contentWithFiles, currentContent,
                   currentThinking, decoder, buffer, stream, pos, delivered,
                   readIssuedAborted>>
    /\ UNCHANGED <<blockVars, apiVars, turnVars, fileVars>>

\* chat.js:44: fetch rejects, the network has failed
FetchNetworkError ==
    /\ smPc = "fetch"
    /\ ~FetchSignal(aborted)
    /\ Settled("rejected", [name |-> "TypeError", message |-> ErrNetwork], messages)
    /\ UNCHANGED <<sessions, currentSessionId, showAssets, timers, serverSessions,
                   inputVars, message, filesLeft, contentWithFiles, currentContent,
                   currentThinking, decoder, buffer, stream, pos, delivered,
                   readIssuedAborted>>
    /\ UNCHANGED <<blockVars, apiVars, turnVars, fileVars>>

\* chat.js:44-54: the signal was aborted while fetch or the error body was
\* awaited; both awaits are outside the try block
FetchAborted ==
    /\ smPc \in {"fetch", "errbody"}
    /\ FetchSignal(aborted)
    /\ Settled("rejected", AbortError, messages)
    /\ UNCHANGED <<sessions, currentSessionId, showAssets, timers, serverSessions,
                   inputVars, message, filesLeft, contentWithFiles, currentContent,
                   currentThinking, decoder, buffer, stream, pos, delivered,
                   readIssuedAborted>>
    /\ UNCHANGED <<blockVars, apiVars, turnVars, fileVars>>

\* chat.js:62-67 and 85-90 after the chunk has been handled with result r:
\* an error thrown by the loop body is caught, else the signal is tested and
\* the next read is requested
AfterChunk(r) ==
    /\ decoder' = r.decoder
    /\ buffer' = r.buffer
    /\ delivered' = r.run.log
    /\ currentContent' = r.run.h.currentContent
    /\ currentThinking' = r.run.h.currentThinking
    /\ IF r.run.thrown # NoError
       THEN /\ Settled(CatchLoop(r.run.thrown).pc, CatchLoop(r.run.thrown).e,
                       r.run.h.messages)
            /\ UNCHANGED readIssuedAborted
       ELSE IF StopBeforeRead(aborted)
       THEN /\ Settled("stopped", NoError, r.run.h.messages)
            /\ UNCHANGED readIssuedAborted
       ELSE /\ messages' = r.run.h.messages
            /\ readIssuedAborted' = aborted
            /\ UNCHANGED <<smPc, isStreaming, error, hsPc, smErr>>

\* chat.js:67-84: a chunk of n bytes arrives and its lines are dispatched
ReadChunk(n) ==
    /\ smPc = "read"
    /\ ~FetchSignal(aborted)
    /\ n > 0
    /\ pos' = pos + n
    /\ AfterChunk(ProcessChunk(decoder, buffer, H, delivered,
                               SubSeq(stream, pos + 1, pos + n)))
    /\ UNCHANGED <<sessions, currentSessionId, showAssets, timers, serverSessions,
                   inputVars, message, filesLeft, contentWithFiles, stream>>
    /\ UNCHANGED <<blockVars, apiVars, turnVars, fileVars>>

\* chat.js:68 after the lines r have been dispatched: the loop is left and
\* sendMessage resolves
AfterDone(r) ==
    /\ delivered' = r.log
    /\ currentContent' = r.h.currentContent
    /\ currentThinking' = r.h.currentThinking
    /\ Settled("done", NoError, r.h.messages)

\* chat.js:67-68: the body has ended
ReadDone ==
    /\ smPc = "read"
    /\ ~FetchSignal(aborted)
    /\ pos = Len(stream)
    /\ AfterDone(RunLines(AtEnd(buffer), 1, H, delivered))
    /\ UNCHANGED <<sessions, currentSessionId, showAssets, timers, serverSessions,
                   inputVars, message, filesLeft, contentWithFiles, decoder,
                   buffer, stream, pos, readIssuedAborted>>
    /\ UNCHANGED <<blockVars, apiVars, turnVars, fileVars>>

\* chat.js:85-90: reader.read() rejects: the connection broke (e is a
\* TypeError), or the signal was aborted (e is an AbortError)
ReadRejected ==
    /\ smPc = "read"
    /\ LET e == IF FetchSignal(aborted) THEN AbortError
                ELSE [name |-> "TypeError", message |-> ErrNetwork]
       IN IF CatchLoop(e).pc = "read"
          THEN /\ readIssuedAborted' = aborted
               /\ UNCHANGED <<smPc, smErr, messages, error, isStreaming, hsPc>>
          ELSE /\ Settled(CatchLoop(e).pc, CatchLoop(e).e, messages)
               /\ UNCHANGED readIssuedAborted
    /\ UNCHANGED <<sessions, currentSessionId, showAssets, timers, serverSessions,
                   inputVars, message, filesLeft, contentWithFiles, currentContent,
                   currentThinking, decoder, buffer, stream, pos, delivered>>
    /\ UNCHANGED <<blockVars, apiVars, turnVars, fileVars>>

\* ChatInput.stop and App.handleStop; the stop button is shown while
\* isStreaming
Stop ==
    /\ isStreaming
    /\ ~showAssets
    /\ aborted' = (aborted \/ abortController = "live")
    /\ abortController' = "null"
    /\ isStreaming' = FALSE
    /\ error' = ErrStopped
    /\ timers' = timers + 1
    /\ UNCHANGED <<messages, sessions, currentSessionId, showAssets,
                   serverSessions, hsVars, smVars>>
    /\ UNCHANGED <<blockVars, apiVars, turnVars, fileVars>>

\* the callback of setTimeout in handleStop
StopTimer ==
    /\ timers > 0
    /\ timers' = timers - 1
    /\ error' = NoErrorShown
    /\ UNCHANGED <<messages, isStreaming, sessions, currentSessionId, showAssets,
                   serverSessions, inputVars, hsVars, smVars>>
    /\ UNCHANGED <<blockVars, apiVars, turnVars, fileVars>>

\* handleShowAssets: the assets panel replaces Chat, ChatInput is unmounted
\* and aborts the controller it holds
ShowAssets ==
    /\ ~showAssets
    /\ showAssets' = TRUE
    /\ aborted' = (aborted \/ abortController = "live")
    /\ abortController' = "null"
    /\ UNCHANGED <<messages, isStreaming, error, sessions, currentSessionId,
                   timers, serverSessions, hsVars, smVars>>
    /\ UNCHANGED <<blockVars, apiVars, turnVars, fileVars>>

\* handleShowAssets or the close button of the panel: Chat is shown again,
\* with a ChatInput that holds no controller
HideAssets ==
    /\ showAssets
    /\ showAssets' = FALSE
    /\ UNCHANGED <<messages, isStreaming, error, sessions, currentSessionId,
                   timers, serverSessions, inputVars, hsVars, smVars>>
    /\ UNCHANGED <<blockVars, apiVars, turnVars, fileVars>>

\* loadSessions at the end of the turn: listSessions has answered or failed
LoadSessions(ok) ==
    /\ hsPc = "reload"
    /\ hsPc' = "end"
    /\ IF ok THEN sessions' = serverSessions /\ UNCHANGED error
       ELSE error' = ErrLoadSessions /\ UNCHANGED sessions
    /\ UNCHANGED <<messages, isStreaming, currentSessionId, showAssets, timers,
                   serverSessions, inputVars, message, filesLeft,
                   contentWithFiles, currentContent, currentThinking, smVars>>
    /\ UNCHANGED <<blockVars, apiVars, turnVars, fileVars>>

Next ==
    \/ \E n \in 0..MaxFiles : Send(MessageText, n)
    \/ CreateSessionOk
    \/ CreateSessionFail
    \/ \E ok \in BOOLEAN : UploadDone(ok)
    \/ FetchOk(TurnBodies)
    \/ FetchHttpError
    \/ \E body \in ErrorBodies : ErrorBody(body)
    \/ FetchNetworkError
    \/ FetchAborted
    \/ \E n \in TurnChunkSizes(Len(stream) - pos) : ReadChunk(n)
    \/ ReadDone
    \/ ReadRejected
    \/ Stop
    \/ StopTimer
    \/ ShowAssets
    \/ HideAssets
    \/ \E ok \in BOOLEAN : LoadSessions(ok)

Spec == Init /\ [][Next]_vars

\* the bodies the ending of a turn is checked on: text, and a done or none
FairBodies == Bodies({LineContent, LineDone}, MaxLines)

\* the steps of a turn that wait for nothing but the server or the network:
\* an awaited createSession, uploadFile, fetch or response.json settles, the
\* body ends or the connection breaks.  Chunks may or may not keep coming.
TurnProgress ==
    \/ CreateSessionOk
    \/ CreateSessionFail
    \/ \E ok \in BOOLEAN : UploadDone(ok)
    \/ FetchOk(FairBodies)
    \/ FetchHttpError
    \/ \E body \in ErrorBodies : ErrorBody(body)
    \/ FetchNetworkError
    \/ FetchAborted
    \/ ReadDone
    \/ ReadRejected

\* the steps of the turn and of the user, as in Next
FairNext ==
    \/ TurnProgress
    \/ \E n \in 0..MaxFiles : Send(MessageText, n)
    \/ \E n \in TurnChunkSizes(Len(stream) - pos) : ReadChunk(n)
    \/ Stop
    \/ StopTimer
    \/ ShowAssets
    \/ HideAssets
    \/ \E ok \in BOOLEAN : LoadSessions(ok)

\* the same turn when every awaited call settles at some moment: the byte
\* source ends, fails or is cancelled, no promise stays pending for ever
SpecFair == Init /\ [][FairNext]_vars /\ WF_vars(TurnProgress)

(***************************************************************************)
(* The decoder on its own: a turn in an existing session, without files,   *)
(* whose request has just been sent; no stop, no failure of the network.   *)
(***************************************************************************)
DecodeInit ==
    /\ messages = <<userMessage(MessageText), assistantMessage>>
    /\ isStreaming = TRUE
    /\ error = NoErrorShown
    /\ serverSessions = <<[session_id |-> "s1", title |-> TitleDefault]>>
    /\ sessions = serverSessions
    /\ currentSessionId = "s1"
    /\ showAssets = FALSE
    /\ timers = 0
    /\ abortController = "live"
    /\ aborted = FALSE
    /\ hsPc = "send"
    /\ message = MessageText
    /\ filesLeft = 0
    /\ contentWithFiles = MessageText
    /\ currentContent = <<>>
    /\ currentThinking = <<>>
    /\ smPc = "fetch"
    /\ smErr = NoError
    /\ decoder = NoPending
    /\ buffer = <<>>
    /\ stream = <<>>
    /\ pos = 0
    /\ delivered = <<>>
    /\ readIssuedAborted = FALSE
    /\ currentToolCalls = <<>>
    /\ currentBlock = 0
    /\ assistantMessageCreated = FALSE
    /\ inFlight = {}
    /\ callsIssued = 0
    /\ turns = <<>>
    /\ clock = 0
    /\ inputController = 0
    /\ historyCalls = NoHistoryCalls
    /\ uploadedFiles = <<>>
    /\ fileSelect = NoFileSelect
    /\ createCalls = 0

DecodeNext ==
    \/ FetchOk(DecodeBodies)
    \/ \E n \in ChunkSizes(Len(stream) - pos) : ReadChunk(n)
    \/ ReadDone
    \/ \E ok \in BOOLEAN : LoadSessions(ok)

SpecDecode == DecodeInit /\ [][DecodeNext]_vars

(***************************************************************************)
(* The handler that builds blocks on its own: a turn whose request has     *)
(* been answered and whose events arrive one by one, until the body ends   *)
(* or the connection breaks.  The request of this handler carries no       *)
(* session of its own making: the server names the session in its events.  *)
(***************************************************************************)
B == [messages |-> messages, error |-> error, sessions |-> sessions,
      currentSessionId |-> currentSessionId, currentThinking |-> currentThinking,
      currentContent |-> currentContent, currentToolCalls |-> currentToolCalls,
      currentBlock |-> currentBlock,
      assistantMessageCreated |-> assistantMessageCreated]

\* the session "s" as the list shows it when it is known already
KnownSession ==
    [session_id |-> JStr(<<115>>), title |-> JStr(TitleDefault), created_at |-> "then"]

BlocksInit ==
    /\ messages = <<userMessageWithFiles(MessageText, <<>>)>>
    /\ isStreaming = TRUE
    /\ error = NoErrorShown
    /\ serverSessions = <<>>
    /\ sessions \in {<<>>, <<KnownSession>>}
    /\ currentSessionId = JLit(TextNull)
    /\ showAssets = FALSE
    /\ timers = 0
    /\ abortController = "live"
    /\ aborted = FALSE
    /\ hsPc = "send"
    /\ message = MessageText
    /\ filesLeft = 0
    /\ contentWithFiles = MessageText
    /\ currentContent = <<>>
    /\ currentThinking = <<>>
    /\ smPc = "read"
    /\ smErr = NoError
    /\ decoder = NoPending
    /\ buffer = <<>>
    /\ stream = <<>>
    /\ pos = 0
    /\ delivered = <<>>
    /\ readIssuedAborted = FALSE
    /\ currentToolCalls = <<>>
    /\ currentBlock = 0
    /\ assistantMessageCreated = FALSE
    /\ inFlight = {}
    /\ callsIssued = 0
    /\ turns = <<>>
    /\ clock = 0
    /\ inputController = 0
    /\ historyCalls = NoHistoryCalls
    /\ uploadedFiles = <<>>
    /\ fileSelect = NoFileSelect
    /\ createCalls = 0

\* what the handler has written becomes the state
Written(b) ==
    /\ messages' = b.messages
    /\ error' = b.error
    /\ sessions' = b.sessions
    /\ currentSessionId' = b.currentSessionId
    /\ currentThinking' = b.currentThinking
    /\ currentContent' = b.currentContent
    /\ currentToolCalls' = b.currentToolCalls
    /\ currentBlock' = b.currentBlock
    /\ assistantMessageCreated' = b.assistantMessageCreated

\* chat.js:76-82 for a data line, p being what JSON.parse made of its
\* payload: an error of the parse or of the handler is caught and logged
AfterParse(line, p) ==
    IF p.ok
    THEN /\ Written(OnChunkBlocks(B, p.val, message).h)
         /\ delivered' = Append(delivered, [line |-> line, data |-> p.val])
    ELSE UNCHANGED <<messages, error, sessions, currentSessionId, currentThinking,
                     currentContent, blockVars, delivered>>

\* chat.js:74-83: the next line of the body is dispatched
DispatchLine(line) ==
    /\ PayloadOf(line).data
    /\ AfterParse(line, JSONparse(PayloadOf(line).text))

\* chat.js:67-83: a chunk that completes one line has arrived
DispatchEvent(bytes) ==
    /\ hsPc = "send"
    /\ smPc = "read"
    /\ Len(delivered) < MaxEvents
    /\ DispatchLine(DecodeStream(NoPending, bytes).text)
    /\ UNCHANGED <<isStreaming, showAssets, timers, serverSessions, inputVars, apiVars, turnVars, fileVars,
                   hsPc, message, filesLeft, contentWithFiles, smPc, smErr,
                   decoder, buffer, stream, pos, readIssuedAborted>>

\* the lines dispatched so far
DeliveredLines == [i \in 1..Len(delivered) |-> delivered[i].line]

\* chat.js:67-83: the next line of the scenario is dispatched, the lines
\* before it having been dispatched already
DispatchScenario ==
    /\ hsPc = "send"
    /\ smPc = "read"
    /\ Len(delivered) < Len(ScenarioLines)
    /\ DeliveredLines = SubSeq(ScenarioLines, 1, Len(delivered))
    /\ DispatchLine(DecodeStream(NoPending, ScenarioLines[Len(delivered) + 1]).text)
    /\ UNCHANGED <<isStreaming, showAssets, timers, serverSessions, inputVars, apiVars, turnVars, fileVars,
                   hsPc, message, filesLeft, contentWithFiles, smPc, smErr,
                   decoder, buffer, stream, pos, readIssuedAborted>>

\* the body has ended: sendMessage resolves and handleSendMessage reaches
\* its finally
StreamEnd ==
    /\ hsPc = "send"
    /\ smPc = "read"
    /\ smPc' = "done"
    /\ isStreaming' = FALSE
    /\ hsPc' = "reload"
    /\ UNCHANGED <<messages, error, sessions, currentSessionId, showAssets,
                   timers, serverSessions, inputVars, message, filesLeft,
                   contentWithFiles, currentContent, currentThinking, smErr,
                   decoder, buffer, stream, pos, delivered, readIssuedAborted,
                   blockVars, apiVars, turnVars, fileVars>>

\* the connection has broken: sendMessage rejects and handleSendMessage
\* goes through its catch
StreamFail ==
    /\ hsPc = "send"
    /\ smPc = "read"
    /\ smPc' = "rejected"
    /\ smErr' = [name |-> "TypeError", message |-> ErrNetwork]
    /\ Written(CatchSendBlocks([name |-> "TypeError", message |-> ErrNetwork], B))
    /\ isStreaming' = FALSE
    /\ hsPc' = "reload"
    /\ UNCHANGED <<showAssets, timers, serverSessions, inputVars, message,
                   filesLeft, contentWithFiles, decoder, buffer, stream, pos,
                   delivered, readIssuedAborted, apiVars, turnVars, fileVars>>

BlocksNext ==
    \/ \E bytes \in BlockLines : DispatchEvent(bytes)
    \/ DispatchScenario
    \/ StreamEnd
    \/ StreamFail

SpecBlocks == BlocksInit /\ [][BlocksNext]_vars

(***************************************************************************)
(* The same handler on the events that name a session, for every text the  *)
(* turn may have been submitted with.                                      *)
(***************************************************************************)
SessionsInit ==
    /\ \E text \in SessionMessages :
        /\ messages = <<userMessageWithFiles(text, <<>>)>>
        /\ message = text
        /\ contentWithFiles = text
    /\ isStreaming = TRUE
    /\ error = NoErrorShown
    /\ serverSessions = <<>>
    /\ sessions \in {<<>>, <<KnownSession>>}
    /\ currentSessionId = JLit(TextNull)
    /\ showAssets = FALSE
    /\ timers = 0
    /\ abortController = "live"
    /\ aborted = FALSE
    /\ hsPc = "send"
    /\ filesLeft = 0
    /\ currentContent = <<>>
    /\ currentThinking = <<>>
    /\ smPc = "read"
    /\ smErr = NoError
    /\ decoder = NoPending
    /\ buffer = <<>>
    /\ stream = <<>>
    /\ pos = 0
    /\ delivered = <<>>
    /\ readIssuedAborted = FALSE
    /\ currentToolCalls = <<>>
    /\ currentBlock = 0
    /\ assistantMessageCreated = FALSE
    /\ inFlight = {}
    /\ callsIssued = 0
    /\ turns = <<>>
    /\ clock = 0
    /\ inputController = 0
    /\ historyCalls = NoHistoryCalls
    /\ uploadedFiles = <<>>
    /\ fileSelect = NoFileSelect
    /\ createCalls = 0

SessionsNext ==
    \/ \E bytes \in SessionLines : DispatchEvent(bytes)
    \/ StreamEnd
    \/ StreamFail

SpecSessions == SessionsInit /\ [][SessionsNext]_vars

(***************************************************************************)
(* The session list of App.vue under the calls of the session API          *)
(* (SpecList).  Every call is a request the server serves at some moment   *)
(* and a response the awaiting function goes on with at some later moment; *)
(* the calls that are under way are served and answered in any order.      *)
(***************************************************************************)
\* the calls the user may start
MaxCalls == 3

\* "n": the title the user renames a session to
NewTitle == <<110>>

ErrRename == "rename-session-failed"
ErrDelete == "delete-session-failed"

\* the session_id the server gives the session that call n creates
NewSessionId(n) ==
    CASE n = 1 -> "c1" [] n = 2 -> "c2" [] n = 3 -> "c3" [] n = 4 -> "c4"
      [] n = 5 -> "c5" [] n = 6 -> "c6" [] n = 7 -> "c7" [] OTHER -> "c8"

\* call n of the API: op on the session arg, awaited by the function then
Call(n, op, arg, title, then) ==
    [n |-> n, op |-> op, arg |-> arg, title |-> title, then |-> then,
     served |-> FALSE, ok |-> TRUE, body |-> <<>>]

Issue(op, arg, title, then) ==
    /\ inFlight' = inFlight \cup {Call(callsIssued + 1, op, arg, title, then)}
    /\ callsIssued' = callsIssued + 1

Answered(c) ==
    /\ inFlight' = inFlight \ {c}
    /\ UNCHANGED callsIssued

\* the session ids of a list
IdsOf(list) == {list[i].session_id : i \in 1..Len(list)}

\* sessions.value.filter(s => s.session_id !== sessionId)
RECURSIVE WithoutSession(_, _)
WithoutSession(list, id) ==
    IF list = <<>> THEN <<>>
    ELSE IF Head(list).session_id = id THEN WithoutSession(Tail(list), id)
    ELSE <<Head(list)>> \o WithoutSession(Tail(list), id)

\* sessions.value.findIndex(s => s.session_id === sessionId), 0 for -1
SessionIndex(list, id) ==
    IF id \notin IdsOf(list) THEN 0
    ELSE CHOOSE i \in 1..Len(list) :
           /\ list[i].session_id = id
           /\ \A j \in 1..(i - 1) : list[j].session_id # id

\* onMounted has called loadSessions; the server may know a session
ListInit ==
    /\ messages = <<>>
    /\ isStreaming = FALSE
    /\ error = NoErrorShown
    /\ serverSessions \in {<<>>, <<[session_id |-> "s1", title |-> TitleDefault]>>}
    /\ sessions = <<>>
    /\ currentSessionId = "null"
    /\ showAssets = FALSE
    /\ timers = 0
    /\ abortController = "null"
    /\ aborted = FALSE
    /\ hsPc = "idle"
    /\ message = MessageText
    /\ filesLeft = 0
    /\ contentWithFiles = <<>>
    /\ currentContent = <<>>
    /\ currentThinking = <<>>
    /\ smPc = "idle"
    /\ smErr = NoError
    /\ decoder = NoPending
    /\ buffer = <<>>
    /\ stream = <<>>
    /\ pos = 0
    /\ delivered = <<>>
    /\ readIssuedAborted = FALSE
    /\ currentToolCalls = <<>>
    /\ currentBlock = 0
    /\ assistantMessageCreated = FALSE
    /\ inFlight = {Call(1, "list", "none", <<>>, "mount")}
    /\ callsIssued = 1
    /\ turns = <<>>
    /\ clock = 0
    /\ inputController = 0
    /\ historyCalls = NoHistoryCalls
    /\ uploadedFiles = <<>>
    /\ fileSelect = NoFileSelect
    /\ createCalls = 0

\* what no step of this specification writes
ListFrame ==
    UNCHANGED <<timers, inputVars, hsVars, smVars, blockVars, turnVars, fileVars>>

\* handleSendMessage from `messages.value.push(userMessage)` to the call of
\* sendMessage, the turn having no files
StartChat(pending) ==
    /\ messages' = messages \o <<userMessage(message), assistantMessage>>
    /\ isStreaming' = TRUE
    /\ inFlight' = pending \cup {Call(callsIssued + 1, "chat", "none", <<>>, "send")}
    /\ callsIssued' = callsIssued + 1

\* handleSendMessage up to its first suspension: in ensureCurrentSession
\* when there is no current session, in sendMessage when there is one
SendMessage ==
    /\ ~isStreaming
    /\ callsIssued < MaxCalls
    /\ IF currentSessionId = "null"
       THEN /\ Issue("create", "none", InitialTitle(message), "send")
            /\ UNCHANGED <<messages, isStreaming>>
       ELSE StartChat(inFlight)
    /\ UNCHANGED <<error, sessions, currentSessionId, showAssets, serverSessions>>
    /\ ListFrame

\* handleCreateSession up to its first suspension
CreateSession ==
    /\ callsIssued < MaxCalls
    /\ showAssets' = FALSE
    /\ IF currentSessionId = "null"
       THEN /\ Issue("create", "none", TitleDefault, "new")
            /\ UNCHANGED messages
       ELSE /\ messages' = <<>>
            /\ UNCHANGED apiVars
    /\ UNCHANGED <<isStreaming, error, sessions, currentSessionId, serverSessions>>
    /\ ListFrame

\* handleRenameSession up to its await
RenameSession(id) ==
    /\ callsIssued < MaxCalls
    /\ Issue("rename", id, NewTitle, "rename")
    /\ UNCHANGED <<appVars, serverSessions>>
    /\ ListFrame

\* handleDeleteSession up to its await
DeleteSession(id) ==
    /\ callsIssued < MaxCalls
    /\ Issue("delete", id, <<>>, "delete")
    /\ UNCHANGED <<appVars, serverSessions>>
    /\ ListFrame

\* the list of the server after it has served the call
ServerAfter(c) ==
    CASE c.op = "create" ->
            <<[session_id |-> NewSessionId(c.n), title |-> <<>>]>> \o serverSessions
      [] c.op = "rename" ->
            [serverSessions EXCEPT ![SessionIndex(serverSessions, c.arg)].title = c.title]
      [] c.op = "delete" -> WithoutSession(serverSessions, c.arg)
      [] OTHER -> serverSessions

\* the server serves a call (ok) or the call fails; a session the server
\* does not know cannot be renamed or deleted
Served(c, ok) ==
    /\ ~c.served
    /\ c.op # "chat"
    /\ (ok /\ c.op \in {"rename", "delete"}) => c.arg \in IdsOf(serverSessions)
    /\ serverSessions' = IF ok THEN ServerAfter(c) ELSE serverSessions
    /\ inFlight' = (inFlight \ {c}) \cup
                      {[c EXCEPT !.served = TRUE, !.ok = ok,
                                 !.body = IF ok /\ c.op = "list"
                                          THEN serverSessions ELSE <<>>]}
    /\ UNCHANGED <<appVars, callsIssued>>
    /\ ListFrame

\* loadSessions after `await listSessions()`
ListAnswered(c) ==
    /\ c.served
    /\ c.op = "list"
    /\ IF c.ok THEN sessions' = c.body /\ UNCHANGED error
       ELSE error' = ErrLoadSessions /\ UNCHANGED sessions
    /\ Answered(c)
    /\ UNCHANGED <<messages, isStreaming, currentSessionId, showAssets, serverSessions>>
    /\ ListFrame

\* ensureCurrentSession after `await createSession('')`, and the function
\* that awaited it up to its next suspension
CreateAnswered(c) ==
    /\ c.served
    /\ c.op = "create"
    /\ IF c.ok
       THEN /\ currentSessionId' = NewSessionId(c.n)
            /\ sessions' = <<[session_id |-> NewSessionId(c.n), title |-> c.title]>>
                                \o sessions
            /\ UNCHANGED error
            /\ IF c.then = "send"
               THEN StartChat(inFlight \ {c})
               ELSE /\ messages' = <<>>
                    /\ Answered(c)
                    /\ UNCHANGED isStreaming
       ELSE /\ error' = ErrCreateSession
            /\ Answered(c)
            /\ UNCHANGED <<messages, isStreaming, sessions, currentSessionId>>
    /\ UNCHANGED <<showAssets, serverSessions>>
    /\ ListFrame

\* handleRenameSession after `await renameSession(...)`
RenameAnswered(c) ==
    /\ c.served
    /\ c.op = "rename"
    /\ IF c.ok
       THEN /\ sessions' = IF SessionIndex(sessions, c.arg) = 0 THEN sessions
                            ELSE [sessions EXCEPT
                                     ![SessionIndex(sessions, c.arg)].title = c.title]
            /\ UNCHANGED error
       ELSE error' = ErrRename /\ UNCHANGED sessions
    /\ Answered(c)
    /\ UNCHANGED <<messages, isStreaming, currentSessionId, showAssets, serverSessions>>
    /\ ListFrame

\* handleDeleteSession after `await deleteSession(sessionId)`
DeleteAnswered(c) ==
    /\ c.served
    /\ c.op = "delete"
    /\ IF c.ok
       THEN /\ sessions' = WithoutSession(sessions, c.arg)
            /\ IF currentSessionId = c.arg
               THEN /\ currentSessionId' =
                           IF WithoutSession(sessions, c.arg) = <<>> THEN "null"
                           ELSE WithoutSession(sessions, c.arg)[1].session_id
                    /\ messages' = <<>>
               ELSE UNCHANGED <<currentSessionId, messages>>
            /\ UNCHANGED error
       ELSE /\ error' = ErrDelete
            /\ UNCHANGED <<sessions, currentSessionId, messages>>
    /\ Answered(c)
    /\ UNCHANGED <<isStreaming, showAssets, serverSessions>>
    /\ ListFrame

\* handleSendMessage from the settling of sendMessage to the call of
\* loadSessions in its finally; ok: sendMessage has resolved
ChatSettled(c, ok) ==
    /\ c.op = "chat"
    /\ IF ok THEN UNCHANGED <<messages, error>>
       ELSE /\ messages' = FilterOut(messages, assistantMsgId)
            /\ error' = ErrSend
    /\ isStreaming' = FALSE
    /\ inFlight' = (inFlight \ {c}) \cup {Call(callsIssued + 1, "list", "none", <<>>, "finally")}
    /\ callsIssued' = callsIssued + 1
    /\ UNCHANGED <<sessions, currentSessionId, showAssets, serverSessions>>
    /\ ListFrame

ListNext ==
    \/ SendMessage
    \/ CreateSession
    \/ \E id \in IdsOf(sessions) : RenameSession(id)
    \/ \E id \in IdsOf(sessions) : DeleteSession(id)
    \/ \E c \in inFlight, ok \in BOOLEAN : Served(c, ok)
    \/ \E c \in inFlight : ListAnswered(c)
    \/ \E c \in inFlight : CreateAnswered(c)
    \/ \E c \in inFlight : RenameAnswered(c)
    \/ \E c \in inFlight : DeleteAnswered(c)
    \/ \E c \in inFlight, ok \in BOOLEAN : ChatSettled(c, ok)

SpecList == ListInit /\ [][ListNext]_vars

(***************************************************************************)
(* The decoder when the handler throws: the turn of DecodeInit, the body   *)
(* holding lines whose payload is null.                                    *)
(***************************************************************************)
ThrowNext ==
    \/ FetchOk(ThrowBodies)
    \/ \E n \in ChunkSizes(Len(stream) - pos) : ReadChunk(n)
    \/ ReadDone
    \/ \E ok \in BOOLEAN : LoadSessions(ok)

SpecThrow == DecodeInit /\ [][ThrowNext]_vars

(***************************************************************************)
(* Several turns: every call of handleSendMessage is followed on its own,  *)
(* with the ChatInput that starts the turns, the stop button and the       *)
(* selection of a session in the list.                                     *)
(***************************************************************************)
\* calls of handleSendMessage
MaxTurns == 2
\* Date.now() takes the values 0..MaxClock
MaxClock == 1
\* events the stream of one turn hands to onChunk
MaxTurnEvents == 2
\* calls of handleSelectSession
MaxSelects == 1

ErrLoadHistory == "load-history-failed"

\* the events the streams of the turns are made of
TurnEventLines == {LineContent, LineDone}

\* `assistant-${Date.now()}` of a turn that pushes its messages now
AssistantIdNow == [prefix |-> "assistant", time |-> clock]

\* the assistantMessage of a turn; `turn` is not a field of the program, it
\* names the call of handleSendMessage that pushed the message
TurnAssistantMessage(t) ==
    [id |-> AssistantIdNow, role |-> "assistant", content |-> <<>>,
     created_at |-> "null", thinking |-> <<>>, turn |-> t]

\* the userMessage of a turn
TurnUserMessage(u) == userMessage(u.contentWithFiles)

\* a call of handleSendMessage at its start: arguments, closure variables,
\* the signal it was handed, and the sessions it has named so far
NewTurn(nfiles) ==
    [pc |-> "ensure", aborted |-> FALSE, filesLeft |-> nfiles,
     contentWithFiles |-> MessageText,
     id |-> [prefix |-> "assistant", time |-> 0],
     currentContent |-> <<>>, currentThinking |-> <<>>, events |-> 0,
     submittedIn |-> currentSessionId, uploadedTo |-> {}, sentTo |-> "none"]

SetTurn(t, u) ==
    turns' = IF t > Len(turns) THEN Append(turns, u) ELSE [turns EXCEPT ![t] = u]

\* App.vue:158-198 from the loop over the files on, cur being
\* currentSessionId.value as the handler reads it now: the next file is
\* uploaded to cur, or the messages are pushed and sendMessage is called
\* with cur
ProceedTurn(t, u, cur) ==
    IF u.filesLeft > 0
    THEN /\ SetTurn(t, [u EXCEPT !.pc = "upload", !.uploadedTo = @ \cup {cur}])
         /\ UNCHANGED <<messages, isStreaming>>
    ELSE /\ messages' = messages \o <<TurnUserMessage(u), TurnAssistantMessage(t)>>
         /\ isStreaming' = TRUE
         /\ SetTurn(t, [u EXCEPT !.pc = "stream", !.sentTo = cur,
                                 !.id = AssistantIdNow])

\* ChatInput.send and handleSendMessage up to its first suspension; the
\* input is disabled while isStreaming; limit is the number of turns
\* that are followed
TurnSend(limit, nfiles) ==
    /\ Len(turns) < limit
    /\ ~isStreaming
    /\ inputController' = Len(turns) + 1
    /\ IF currentSessionId = "null"
       THEN /\ SetTurn(Len(turns) + 1, NewTurn(nfiles))
            /\ UNCHANGED <<messages, isStreaming>>
       ELSE ProceedTurn(Len(turns) + 1, NewTurn(nfiles), currentSessionId)
    /\ UNCHANGED <<error, sessions, currentSessionId, showAssets, timers,
                   serverSessions, inputVars, hsVars, smVars, blockVars, apiVars,
                   clock, historyCalls, fileVars>>

\* ensureCurrentSession of turn t: createSession('') has answered or failed
TurnCreated(t, ok) ==
    /\ turns[t].pc = "ensure"
    /\ IF ok
       THEN /\ currentSessionId' = NewSessionId(t)
            /\ sessions' = Unshift(sessions, [session_id |-> NewSessionId(t),
                                              title |-> InitialTitle(MessageText)])
            /\ serverSessions' =
                   <<[session_id |-> NewSessionId(t), title |-> <<>>]>> \o serverSessions
            /\ ProceedTurn(t, turns[t], NewSessionId(t))
            /\ UNCHANGED error
       ELSE /\ error' = ErrCreateSession
            /\ SetTurn(t, [turns[t] EXCEPT !.pc = "end"])
            /\ UNCHANGED <<messages, isStreaming, sessions, currentSessionId,
                           serverSessions>>
    /\ UNCHANGED <<showAssets, timers, inputVars, hsVars, smVars, blockVars,
                   apiVars, clock, inputController, historyCalls, fileVars>>

\* App.vue:161-169 of turn t: uploadFile has answered or failed
TurnUploaded(t, ok) ==
    /\ turns[t].pc = "upload"
    /\ ProceedTurn(t, [turns[t] EXCEPT
                          !.filesLeft = @ - 1,
                          !.contentWithFiles =
                              @ \o (IF ok THEN NoteUploaded(FileName)
                                    ELSE NoteUploadFailed(FileName))],
                   currentSessionId)
    /\ UNCHANGED <<error, sessions, currentSessionId, showAssets, timers,
                   serverSessions, inputVars, hsVars, smVars, blockVars, apiVars,
                   clock, inputController, historyCalls, fileVars>>

\* what onChunk of turn t has left in h
ApplyEvent(t, h) ==
    /\ messages' = h.messages
    /\ turns' = [turns EXCEPT ![t].currentContent = h.currentContent,
                              ![t].currentThinking = h.currentThinking,
                              ![t].events = @ + 1]

\* sendMessage of turn t hands the event of a line to the onChunk of turn t
TurnEvent(t, line) ==
    /\ turns[t].pc = "stream"
    /\ ~turns[t].aborted
    /\ turns[t].events < MaxTurnEvents
    /\ ApplyEvent(t, OnChunkFor(turns[t].id,
                                [messages |-> messages,
                                 currentContent |-> turns[t].currentContent,
                                 currentThinking |-> turns[t].currentThinking],
                                JSONparse(PayloadOf(line).text).val).h)
    /\ UNCHANGED <<isStreaming, error, sessions, currentSessionId, showAssets,
                   timers, serverSessions, inputVars, hsVars, smVars, blockVars,
                   apiVars, clock, inputController, historyCalls, fileVars>>

\* sendMessage of turn t has returned: "done" at the end of the body,
\* "failed" rejected by the network, "aborted" after its signal was
\* aborted; App.vue:225-234 up to `await loadSessions()`
TurnSettled(t, how) ==
    /\ turns[t].pc = "stream"
    /\ turns[t].aborted <=> how = "aborted"
    /\ IF how = "failed"
       THEN /\ messages' = FilterOut(messages, turns[t].id)
            /\ error' = ErrNetwork
       ELSE UNCHANGED <<messages, error>>
    /\ isStreaming' = FALSE
    /\ SetTurn(t, [turns[t] EXCEPT !.pc = "reload"])
    /\ UNCHANGED <<sessions, currentSessionId, showAssets, timers,
                   serverSessions, inputVars, hsVars, smVars, blockVars, apiVars,
                   clock, inputController, historyCalls, fileVars>>

\* loadSessions at the end of turn t
TurnReloaded(t, ok) ==
    /\ turns[t].pc = "reload"
    /\ SetTurn(t, [turns[t] EXCEPT !.pc = "end"])
    /\ IF ok THEN sessions' = serverSessions /\ UNCHANGED error
       ELSE error' = ErrLoadSessions /\ UNCHANGED sessions
    /\ UNCHANGED <<messages, isStreaming, currentSessionId, showAssets, timers,
                   serverSessions, inputVars, hsVars, smVars, blockVars, apiVars,
                   clock, inputController, historyCalls, fileVars>>

\* ChatInput.stop and App.handleStop: the controller ChatInput holds, the
\* one of the latest send, is aborted
StopTurns ==
    /\ isStreaming
    /\ turns' = IF inputController = 0 THEN turns
                ELSE [turns EXCEPT ![inputController].aborted = TRUE]
    /\ inputController' = 0
    /\ isStreaming' = FALSE
    /\ error' = ErrStopped
    /\ timers' = timers + 1
    /\ UNCHANGED <<messages, sessions, currentSessionId, showAssets,
                   serverSessions, inputVars, hsVars, smVars, blockVars, apiVars,
                   clock, historyCalls, fileVars>>

\* handleSelectSession up to `await getChatHistory(sessionId)`; the entries
\* of the session list can be clicked at any time
SelectSession(id) ==
    /\ historyCalls.issued < MaxSelects
    /\ showAssets' = FALSE
    /\ currentSessionId' = id
    /\ isStreaming' = TRUE
    /\ historyCalls' = [issued |-> historyCalls.issued + 1,
                        pending |-> historyCalls.pending + 1]
    /\ UNCHANGED <<messages, error, sessions, timers, serverSessions, inputVars,
                   hsVars, smVars, blockVars, apiVars, turns, clock,
                   inputController, fileVars>>

\* handleSelectSession after the await: the history, here of a session
\* without messages, replaces the messages, or the call has failed
HistoryLoaded(ok) ==
    /\ historyCalls.pending > 0
    /\ historyCalls' = [historyCalls EXCEPT !.pending = @ - 1]
    /\ IF ok THEN messages' = <<>> /\ UNCHANGED error
       ELSE error' = ErrLoadHistory /\ UNCHANGED messages
    /\ isStreaming' = FALSE
    /\ UNCHANGED <<sessions, currentSessionId, showAssets, timers,
                   serverSessions, inputVars, hsVars, smVars, blockVars, apiVars,
                   turns, clock, inputController, fileVars>>

\* a millisecond passes
Tick ==
    /\ clock < MaxClock
    /\ clock' = clock + 1
    /\ UNCHANGED <<appVars, serverSessions, inputVars, hsVars, smVars, blockVars,
                   apiVars, turns, inputController, historyCalls, fileVars>>

TurnsInitIn(cur) ==
    /\ messages = <<>>
    /\ isStreaming = FALSE
    /\ error = NoErrorShown
    /\ serverSessions = <<[session_id |-> "s1", title |-> TitleDefault]>>
    /\ sessions = serverSessions
    /\ currentSessionId = cur
    /\ showAssets = FALSE
    /\ timers = 0
    /\ abortController = "null"
    /\ aborted = FALSE
    /\ hsPc = "idle"
    /\ message = <<>>
    /\ filesLeft = 0
    /\ contentWithFiles = <<>>
    /\ currentContent = <<>>
    /\ currentThinking = <<>>
    /\ smPc = "idle"
    /\ smErr = NoError
    /\ decoder = NoPending
    /\ buffer = <<>>
    /\ stream = <<>>
    /\ pos = 0
    /\ delivered = <<>>
    /\ readIssuedAborted = FALSE
    /\ currentToolCalls = <<>>
    /\ currentBlock = 0
    /\ assistantMessageCreated = FALSE
    /\ inFlight = {}
    /\ callsIssued = 0
    /\ turns = <<>>
    /\ clock = 0
    /\ inputController = 0
    /\ historyCalls = NoHistoryCalls
    /\ uploadedFiles = <<>>
    /\ fileSelect = NoFileSelect
    /\ createCalls = 0

\* no session is current when the first message is sent
TurnsInit == TurnsInitIn("null")

TurnsNext ==
    \/ \E n \in 0..1 : TurnSend(MaxTurns, n)
    \/ \E t \in 1..Len(turns), ok \in BOOLEAN : TurnCreated(t, ok)
    \/ \E t \in 1..Len(turns), ok \in BOOLEAN : TurnUploaded(t, ok)
    \/ \E t \in 1..Len(turns), line \in TurnEventLines : TurnEvent(t, line)
    \/ \E t \in 1..Len(turns), how \in {"done", "failed", "aborted"} : TurnSettled(t, how)
    \/ \E t \in 1..Len(turns), ok \in BOOLEAN : TurnReloaded(t, ok)
    \/ StopTurns
    \/ StopTimer
    \/ Tick

SpecTurns == TurnsInit /\ [][TurnsNext]_vars

(***************************************************************************)
(* One turn, and the user selecting a session of the list while the turn   *)
(* is under way.                                                           *)
(***************************************************************************)
SelectInit == \E cur \in {"null", "s1"} : TurnsInitIn(cur)

SelectNext ==
    \/ \E n \in 0..1 : TurnSend(1, n)
    \/ \E t \in 1..Len(turns), ok \in BOOLEAN : TurnCreated(t, ok)
    \/ \E t \in 1..Len(turns), ok \in BOOLEAN : TurnUploaded(t, ok)
    \/ \E t \in 1..Len(turns), line \in TurnEventLines : TurnEvent(t, line)
    \/ \E t \in 1..Len(turns), how \in {"done", "failed", "aborted"} : TurnSettled(t, how)
    \/ \E t \in 1..Len(turns), ok \in BOOLEAN : TurnReloaded(t, ok)
    \/ StopTurns
    \/ StopTimer
    \/ \E id \in IdsOf(sessions) : SelectSession(id)
    \/ \E ok \in BOOLEAN : HistoryLoaded(ok)
    \/ Tick

SpecSelect == SelectInit /\ [][SelectNext]_vars

(***************************************************************************)
(* ChatInput.handleFileSelect: the files the user selects are uploaded one *)
(* after the other, a session being requested from the parent when there  *)
(* is none.                                                                *)
(***************************************************************************)
\* files the user selects in all
MaxPicked == 2

\* uploadedFiles.value.findIndex(f => f.file === file) and the assignment
\* of uploadStatus when the file is found
SetStatus(list, k, status) ==
    [i \in 1..Len(list) |->
        IF list[i].file = k THEN [list[i] EXCEPT !.uploadStatus = status]
        ELSE list[i]]

\* FileTreeNode.vue:1237-1279: the body of the loop for file k up to its
\* first suspension, list being uploadedFiles before it.  Without a session
\* createSession is emitted, which runs handleCreateSession up to
\* `await createSession('')`, and the promise of the watcher is awaited
StartFile(list, k, left, picked) ==
    /\ uploadedFiles' = Append(list, [file |-> k, uploadStatus |-> "uploading"])
    /\ IF currentSessionId # "null"
       THEN /\ fileSelect' = [pc |-> "upload", file |-> k, left |-> left,
                              picked |-> picked]
            /\ UNCHANGED <<showAssets, createCalls>>
       ELSE /\ fileSelect' = [pc |-> "session", file |-> k, left |-> left,
                              picked |-> picked]
            /\ showAssets' = FALSE
            /\ createCalls' = createCalls + 1

\* handleFileSelect: the user has selected n files; the file input is
\* disabled while isStreaming
HandleFileSelect(n) ==
    /\ fileSelect.pc = "idle"
    /\ ~isStreaming
    /\ fileSelect.picked + n <= MaxPicked
    /\ StartFile(uploadedFiles, fileSelect.picked + 1, n - 1, fileSelect.picked + n)
    /\ UNCHANGED <<messages, isStreaming, error, sessions, currentSessionId, timers,
                   serverSessions, inputVars, hsVars, smVars, blockVars, apiVars,
                   turnVars>>

\* handleCreateSession after `await createSession('')` in
\* ensureCurrentSession: the call has answered or failed
SessionCreateAnswered(ok) ==
    /\ createCalls > 0
    /\ createCalls' = createCalls - 1
    /\ IF ok
       THEN /\ currentSessionId' = NewSessionId(Len(serverSessions) + 1)
            /\ sessions' = Unshift(sessions,
                                   [session_id |-> NewSessionId(Len(serverSessions) + 1),
                                    title |-> TitleDefault])
            /\ serverSessions' =
                   <<[session_id |-> NewSessionId(Len(serverSessions) + 1),
                      title |-> <<>>]>> \o serverSessions
            /\ messages' = <<>>
            /\ UNCHANGED error
       ELSE /\ error' = ErrCreateSession
            /\ UNCHANGED <<messages, sessions, currentSessionId, serverSessions>>
    /\ UNCHANGED <<isStreaming, showAssets, timers, inputVars, hsVars, smVars,
                   blockVars, apiVars, turnVars, uploadedFiles, fileSelect>>

\* the callback of the watcher on props.sessionId: a session id has
\* appeared, the promise is resolved and uploadFile is called
SessionWatcher ==
    /\ fileSelect.pc = "session"
    /\ currentSessionId # "null"
    /\ fileSelect' = [fileSelect EXCEPT !.pc = "upload"]
    /\ UNCHANGED <<appVars, serverSessions, inputVars, hsVars, smVars, blockVars,
                   apiVars, turnVars, uploadedFiles, createCalls>>

\* FileTreeNode.vue:1281-1313: uploadFile has answered or failed; the loop
\* goes on with the next file
FileUploaded(ok) ==
    /\ fileSelect.pc = "upload"
    /\ IF fileSelect.left > 0
       THEN StartFile(SetStatus(uploadedFiles, fileSelect.file,
                                IF ok THEN "completed" ELSE "error"),
                      fileSelect.file + 1, fileSelect.left - 1, fileSelect.picked)
       ELSE /\ uploadedFiles' = SetStatus(uploadedFiles, fileSelect.file,
                                          IF ok THEN "completed" ELSE "error")
            /\ fileSelect' = [NoFileSelect EXCEPT !.picked = fileSelect.picked]
            /\ UNCHANGED <<showAssets, createCalls>>
    /\ UNCHANGED <<messages, isStreaming, error, sessions, currentSessionId, timers,
                   serverSessions, inputVars, hsVars, smVars, blockVars, apiVars,
                   turnVars>>

\* removeFile: the user removes the file shown at index i
RemoveFile(i) ==
    /\ uploadedFiles' = SubSeq(uploadedFiles, 1, i - 1)
                            \o SubSeq(uploadedFiles, i + 1, Len(uploadedFiles))
    /\ UNCHANGED <<appVars, serverSessions, inputVars, hsVars, smVars, blockVars,
                   apiVars, turnVars, fileSelect, createCalls>>

\* what the network and the scheduler of the watchers do sooner or later
UploadProgress ==
    \/ \E ok \in BOOLEAN : SessionCreateAnswered(ok)
    \/ SessionWatcher
    \/ \E ok \in BOOLEAN : FileUploaded(ok)
    \/ \E ok \in BOOLEAN : HistoryLoaded(ok)

UploadNext ==
    \/ UploadProgress
    \/ \E n \in 1..MaxPicked : HandleFileSelect(n)
    \/ \E i \in 1..Len(uploadedFiles) : RemoveFile(i)
    \/ \E id \in IdsOf(sessions) : SelectSession(id)

\* every call that is awaited is answered or fails, and a watcher whose
\* source has changed is run
SpecUpload == SelectInit /\ [][UploadNext]_vars /\ WF_vars(UploadProgress)

(***************************************************************************)
(* What the properties below speak about.                                  *)
(***************************************************************************)
\* the handler state when the stream of a turn without files starts
H0 ==
    [messages |-> <<userMessage(MessageText), assistantMessage>>,
     currentContent |-> <<>>, currentThinking |-> <<>>]

\* sendMessage is in its read loop or has left it at the end of the body
Reading == smPc \in {"read", "done"}

\* the bytes handed to the reader so far
Consumed == SubSeq(stream, 1, pos)

\* the calls of onChunk when bytes arrive as one chunk
OneShot(bytes) == ProcessChunk(NoPending, <<>>, H0, <<>>, bytes).run.log

\* the newline-terminated lines of bytes, each decoded on its own
LinesOf(pieces) == [k \in 1..(Len(pieces) - 1) |-> Utf8Run(NoPending, pieces[k]).text]
CompleteLines(bytes) == LinesOf(Split(bytes))

\* a line with the prefix `data: ` and a payload that JSON.parse accepts
IsFrame(line) == StartsWith(line, DataPrefix) /\ JSONparse(Slice(line, 6)).ok

\* the handler state after the events of log[i..] have been applied in order
RECURSIVE ApplyAll(_, _, _)
ApplyAll(log, i, h) ==
    IF i > Len(log) THEN h ELSE ApplyAll(log, i + 1, OnChunk(h, log[i].data).h)

\* the place of the last newline of bytes, 0 when there is none
LastNewline(bytes) ==
    LET nl == {i \in 1..Len(bytes) : bytes[i] = NL} IN
    IF nl = {} THEN 0 ELSE CHOOSE i \in nl : \A j \in nl : j <= i

\* the turn has ended by a cancellation
Cancelled == smPc = "stopped" \/ (smPc = "rejected" /\ smErr.name = "AbortError")

HasAssistantMessage == FindIndex(messages, assistantMsgId) # 0
HasUserMessage == FindIndex(messages, userMsgId) # 0

(***************************************************************************)
(* The frame decoder (SpecDecode).                                         *)
(***************************************************************************)
\* C1: however the bytes read so far were cut into chunks, onChunk has been
\* called with the same events, in the same order, as when those bytes
\* arrive as a single chunk.
C1_BoundaryInvariance == Reading => delivered = OneShot(Consumed)

\* C1 witness: a chunk has ended inside a multi-byte character after an
\* event was delivered.
C1_CutInsideCharacter == smPc = "read" /\ decoder.needed # 0 /\ delivered # <<>>

\* C2: the lines onChunk was called for are exactly the complete well-formed
\* data lines of the bytes read, each once and in stream order, and the
\* handler state is the result of applying those events one after another.
C2_OrderedExactlyOnce ==
    Reading => /\ DeliveredLines = SelectSeq(CompleteLines(Consumed), IsFrame)
               /\ H = ApplyAll(delivered, 1, H0)

\* C2 witness: the body has ended after two different events were applied
\* to the assistant message.
C2_TwoEventsApplied ==
    /\ smPc = "done"
    /\ Len(delivered) >= 2
    /\ delivered[1].line # delivered[2].line
    /\ messages[2].content # <<>>

\* C3: sendMessage never rejects because of a data line that does not
\* parse; such a line is never delivered, and every well-formed data line
\* of the bytes read, before or after it, is delivered.
C3_MalformedLineTolerated ==
    /\ smPc # "rejected"
    /\ \A i \in 1..Len(delivered) : IsFrame(delivered[i].line)
    /\ Reading =>
         \A k \in DOMAIN CompleteLines(Consumed) :
             IsFrame(CompleteLines(Consumed)[k]) =>
                 \E i \in 1..Len(delivered) :
                     delivered[i].line = CompleteLines(Consumed)[k]

\* C3 witness: the body has ended, it held a line that does not parse
\* between two valid frames, and both frames were delivered.
C3_BadLineBetweenFrames ==
    /\ smPc = "done"
    /\ Len(delivered) >= 2
    /\ \E k \in 1..(Len(CompleteLines(stream)) - 2) :
           /\ IsFrame(CompleteLines(stream)[k])
           /\ CompleteLines(stream)[k + 1] = LineMalformed
           /\ IsFrame(CompleteLines(stream)[k + 2])

\* C4: when the body has ended, onChunk has been called with exactly the
\* events of the stream cut off after its last newline: the text after the
\* last newline yields no event, even if it is a complete frame.
C4_LeftoverDiscarded ==
    smPc = "done" => delivered = OneShot(SubSeq(stream, 1, LastNewline(stream)))

\* C4 witness: the body has ended with a complete frame that no newline
\* follows, after an event was delivered.
C4_FrameLeftInBuffer == smPc = "done" /\ buffer = LineDone /\ delivered # <<>>

\* C5: every line onChunk was called for starts with `data: `, and there
\* are as many calls as complete well-formed `data: ` lines in the bytes
\* read: other lines produce no call and hide no line that follows them.
C5_OnlyDataPrefixLines ==
    /\ \A i \in 1..Len(delivered) : StartsWith(delivered[i].line, DataPrefix)
    /\ Reading =>
         Len(delivered) =
             Cardinality({k \in DOMAIN CompleteLines(Consumed) :
                              IsFrame(CompleteLines(Consumed)[k])})

\* C5 witness: the body has ended, it held a `data:` line without the space
\* and a blank line before a valid frame, and the frame was delivered.
C5_FrameAfterOtherLines ==
    /\ smPc = "done"
    /\ delivered # <<>>
    /\ \E j, k, l \in DOMAIN CompleteLines(stream) :
           /\ j < l /\ k < l
           /\ CompleteLines(stream)[j] = LineNoSpace
           /\ CompleteLines(stream)[k] = LineBlank
           /\ IsFrame(CompleteLines(stream)[l])

(***************************************************************************)
(* Cancellation of a turn (Spec).                                          *)
(***************************************************************************)
\* C6: sendMessage never requests a chunk while the signal is aborted, and
\* once it has stopped on an abort onChunk is not called any more.
C6_SignalCheckedBeforeRead ==
    [][/\ smPc' = "read" => ~readIssuedAborted'
       /\ Cancelled => delivered' = delivered]_vars

\* C6 witness: the signal was aborted between two reads of a stream that
\* had delivered events, and sendMessage has stopped.
C6_StoppedBetweenReads ==
    smPc = "stopped" /\ aborted /\ delivered # <<>> /\ pos < Len(stream)

\* C7 as stated: a cancellation never makes sendMessage reject.
C7_AbortAlwaysResolves == ~(smPc = "rejected" /\ smErr.name = "AbortError")

\* C7 amended: a signal aborted while the next chunk is awaited makes
\* sendMessage return; a signal aborted while the response or the error
\* body is awaited, or before the call, makes it reject with the AbortError
\* of fetch, which handleSendMessage catches without showing an error and
\* without touching the messages.
C7_AbortResolvesOnlyWhileReading ==
    [][/\ (smPc = "read" /\ aborted /\ smPc' # "read") => smPc' = "stopped"
       /\ (smPc \in {"fetch", "errbody"} /\ aborted /\ smPc' # smPc) =>
              /\ smPc' = "rejected" /\ smErr' = AbortError
              /\ error' = error /\ messages' = messages
       /\ (hsPc \in {"ensure", "upload"} /\ aborted /\ hsPc' = "reload") =>
              /\ smPc' = "rejected" /\ smErr' = AbortError
              /\ error' = error]_vars

\* C7 witness: sendMessage has rejected with an AbortError and the turn has
\* ended with no error of the request shown.
C7_RejectedWithAbortError ==
    /\ smPc = "rejected" /\ smErr = AbortError
    /\ hsPc = "end"
    /\ error \in {NoErrorShown, ErrStopped}

\* C8 as stated: when a turn was cancelled before any event was delivered
\* and has ended, the messages hold no assistant message of the turn, and
\* they hold the message of the user.
C8_NoPlaceholderAfterEarlyCancel ==
    (hsPc = "end" /\ Cancelled /\ delivered = <<>>) =>
        (~HasAssistantMessage /\ HasUserMessage)

\* C9: once the signal is aborted in a turn that has applied an event, no
\* step changes the messages: the assistant message is neither removed nor
\* rolled back nor changed by a chunk that was on its way.
C9_NoChangeAfterCancel ==
    [][(aborted /\ delivered # <<>>) => messages' = messages]_vars

\* C9 witness: a turn cancelled in the middle of its stream has ended and
\* its assistant message holds the content applied before.
C9_PartialContentKept ==
    /\ hsPc = "end" /\ smPc = "stopped" /\ aborted
    /\ pos < Len(stream)
    /\ HasAssistantMessage
    /\ messages[FindIndex(messages, assistantMsgId)].content # <<>>

\* C10 as stated: the messages hold the assistant message of the turn only
\* if a thinking or content event of the turn has been applied.
C10_AssistantAttachedLazily ==
    HasAssistantMessage =>
        \E i \in 1..Len(delivered) :
            EventType(delivered[i].data) \in {TypeThinking, TypeContent}

(***************************************************************************)
(* Failures of the transport and of the stream (Spec).                     *)
(***************************************************************************)
\* the step in which sendMessage rejects before it has taken the reader:
\* fetch has rejected, or the status was an error and the error body is in
FailsBeforeStream ==
    smPc \in {"fetch", "errbody"} /\ smPc' = "rejected" /\ smErr'.name # "AbortError"

\* C11: when fetch rejects on a network error or the response has an error
\* status, no event has been applied, and the step that ends sendMessage
\* leaves an error shown, isStreaming false, no assistant message of the
\* turn in the list and the message of the user in the list; no later step
\* of the turn changes the messages or sets isStreaming again.
C11_FailureBeforeStream ==
    [][/\ FailsBeforeStream =>
              /\ delivered' = <<>>
              /\ error' \notin {NoErrorShown, ""}
              /\ ~isStreaming'
              /\ FindIndex(messages', assistantMsgId) = 0
              /\ FindIndex(messages', userMsgId) # 0
       /\ (smPc = "rejected" /\ smErr.name # "AbortError" /\ pos = 0 /\ stream = <<>>) =>
              /\ messages' = messages
              /\ ~isStreaming']_vars

\* C11 witness: the turn has ended after an error response whose body was
\* not JSON; the user message is alone in the list and the error is shown.
C11_ErrorResponseShown ==
    /\ hsPc = "end" /\ smPc = "rejected" /\ smErr.name = "SyntaxError"
    /\ error = ErrNotJson
    /\ ~isStreaming
    /\ messages = <<userMessage(MessageText)>>

\* C12 as stated: when sendMessage has rejected on a failure of the
\* transport after thinking or content text was applied, the assistant
\* message of the turn is still in the list and holds that text.
C12_PopulatedMessageKept ==
    (/\ smPc = "rejected" /\ smErr.name # "AbortError"
     /\ (currentContent # <<>> \/ currentThinking # <<>>)) =>
        /\ HasAssistantMessage
        /\ messages[FindIndex(messages, assistantMsgId)].content = currentContent
        /\ messages[FindIndex(messages, assistantMsgId)].thinking = currentThinking

\* an event of the given type has been delivered
Dispatched(type) ==
    \E i \in 1..Len(delivered) : EventType(delivered[i].data) = type

\* C13 as stated: once an error event has been dispatched, the error field
\* is set while the stream goes on, and sendMessage does not end as a
\* normal completion.
C13_ErrorEventFailsTurn ==
    Dispatched(TypeErrorEvent) =>
        /\ hsPc = "send" => error # NoErrorShown
        /\ smPc # "done"

(***************************************************************************)
(* The end of the stream: done (Spec).                                     *)
(***************************************************************************)
\* the texts of the events of one type among log[i..], one after another
RECURSIVE TextOf(_, _, _)
TextOf(log, i, type) ==
    IF i > Len(log) THEN <<>>
    ELSE (IF EventType(log[i].data) = type
          THEN OrEmpty(Prop(log[i].data, KeyContent)) ELSE <<>>)
         \o TextOf(log, i + 1, type)

\* the step dispatches one more event, of the given type
Dispatches(type) ==
    /\ Len(delivered') = Len(delivered) + 1
    /\ EventType(delivered'[Len(delivered')].data) = type

\* the content field of the event dispatched last in the step
LastContent == Prop(delivered'[Len(delivered')].data, KeyContent)

\* the assistant message of the turn after the step
AssistantAfter == messages'[FindIndex(messages', assistantMsgId)]

\* C14 as stated: a done event whose content value differs from the text
\* accumulated from the content events makes that value the content of the
\* message.
C14_DoneValueAlwaysWins ==
    [][(/\ Dispatches(TypeDone)
        /\ LastContent.k = "str"
        /\ LastContent.s # TextOf(delivered, 1, TypeContent)) =>
            AssistantAfter.content = LastContent.s]_vars

\* C14 amended: a done event marks the assistant message complete (its
\* created_at is set); when it carries a non-empty content text, that text
\* becomes the content of the message, and when it carries no content or
\* an empty one, the content is the text accumulated from the content
\* events before it.
C14_DoneNonEmptyValueWins ==
    [][Dispatches(TypeDone) =>
           /\ AssistantAfter.created_at = "now"
           /\ AssistantAfter.content =
                  IF LastContent.k = "str" /\ LastContent.s # <<>>
                  THEN LastContent.s
                  ELSE TextOf(delivered, 1, TypeContent)]_vars

\* C14 witness: a done event with the text "b" came after a content event
\* with another text, and the message holds "b".
C14_FinalTextReplacedChunks ==
    /\ Len(delivered) = 2
    /\ EventType(delivered[1].data) = TypeContent
    /\ delivered[2].line = LineDoneText
    /\ messages[FindIndex(messages, assistantMsgId)].content = <<98>>
    /\ messages[FindIndex(messages, assistantMsgId)].created_at = "now"

\* C15 as stated: once a done event has been dispatched, no event that is
\* dispatched after it in the same stream changes the assistant message.
C15_NothingAppliedAfterDone ==
    [][(Dispatched(TypeDone) /\ Len(delivered') > Len(delivered)) =>
           AssistantAfter = messages[FindIndex(messages, assistantMsgId)]]_vars

(***************************************************************************)
(* The timeline of blocks (SpecBlocks).                                    *)
(***************************************************************************)
\* the blocks of the assistant message of the turn as ChatMessage shows
\* them, none when the list holds no such message
TimelineOf(msgs) ==
    IF FindIndex(msgs, assistantMsgId) = 0 THEN <<>>
    ELSE sortedBlocks(msgs[FindIndex(msgs, assistantMsgId)].blocks)

Timeline == TimelineOf(messages)

\* the first of the events of one type that end the events dispatched
RECURSIVE RunStart(_, _, _)
RunStart(log, i, type) ==
    IF i > 1 /\ EventType(log[i - 1].data) = type
    THEN RunStart(log, i - 1, type) ELSE i

ContentRunStart == RunStart(delivered, Len(delivered), TypeContent)

\* the content events at the end of the events dispatched are all the
\* events so far, or follow an event that made or extended a block of
\* another kind
ContentRunOnItsOwn ==
    /\ smPc = "read"
    /\ delivered # <<>>
    /\ EventType(delivered[Len(delivered)].data) = TypeContent
    /\ \/ ContentRunStart = 1
       \/ EventType(delivered[ContentRunStart - 1].data) \in {TypeThinking, TypeToolCall}

\* C16: content events that follow one another without an event of another
\* type between them make exactly one content block, whose text is their
\* contents one after another, an event without content adding nothing.
C16_ContentRunOneBlock ==
    ContentRunOnItsOwn =>
        /\ Timeline # <<>>
        /\ Timeline[Len(Timeline)].type = TypeContent
        /\ Timeline[Len(Timeline)].content =
               JStr(TextOf(delivered, ContentRunStart, TypeContent))
        /\ IF ContentRunStart = 1 THEN Len(Timeline) = 1
           ELSE /\ Len(Timeline) > 1
                /\ Timeline[Len(Timeline) - 1].type # TypeContent

\* C16 witness: three content events, the second without content, have made
\* one block with the two texts.
C16_ThreeEventsOneBlock ==
    /\ Len(delivered) = 3
    /\ \A i \in 1..3 : EventType(delivered[i].data) = TypeContent
    /\ Prop(delivered[2].data, KeyContent) = Undefined
    /\ Len(Timeline) = 1
    /\ Timeline[1].content = JStr(<<20320, 20320>>)

\* the blocks before the last one
Front(blocks) == SubSeq(blocks, 1, Len(blocks) - 1)

C18_EveryToolCallOwnBlock ==
    (/\ smPc = "read"
     /\ Len(delivered) >= 2
     /\ EventType(delivered[Len(delivered) - 1].data) = TypeToolCall
     /\ EventType(delivered[Len(delivered)].data) = TypeToolCall) =>
        /\ Len(Timeline) >= 2
        /\ Timeline[Len(Timeline) - 1].type = TypeToolCall
        /\ Timeline[Len(Timeline)].type = TypeToolCall
        /\ Timeline[Len(Timeline)].tool_name =
               OrEmptyValue(Prop(delivered[Len(delivered)].data, KeyToolName))
        /\ Timeline[Len(Timeline) - 1].tool_name =
               OrEmptyValue(Prop(delivered[Len(delivered) - 1].data, KeyToolName))

\* the event dispatched last in the step
LastEvent == delivered'[Len(delivered')].data

\* C19 as stated: a tool_result event that comes after a tool_call event
\* adds one tool_result block with the result, the success and the duration
\* of the event behind the blocks there are, which stay as they were.
C19_ToolResultAddsBlock ==
    [][(Dispatched(TypeToolCall) /\ Dispatches(TypeToolResult)) =>
           /\ Len(TimelineOf(messages')) = Len(Timeline) + 1
           /\ Front(TimelineOf(messages')) = Timeline
           /\ TimelineOf(messages')[Len(Timeline) + 1].type = TypeToolResult
           /\ TimelineOf(messages')[Len(Timeline) + 1].result =
                  OrEmptyValue(Prop(LastEvent, KeyResult))
           /\ TimelineOf(messages')[Len(Timeline) + 1].success =
                  NotFalse(Prop(LastEvent, KeySuccess))
           /\ TimelineOf(messages')[Len(Timeline) + 1].duration =
                  Prop(LastEvent, KeyDuration)]_vars

\* the last thinking block of a timeline, 0 when it has none
LastThinking(blocks) ==
    LET hits == {k \in 1..Len(blocks) : blocks[k].type = TypeThinking} IN
    IF hits = {} THEN 0 ELSE CHOOSE k \in hits : \A j \in hits : j <= k

\* C20 as stated, for the blocks: a thinking_end event adds no block and
\* changes no block but the last thinking block, whose duration becomes the
\* duration of the event; without a thinking block the blocks stay as they
\* are.
C20_DurationOnLastThinkingBlock ==
    [][Dispatches(TypeThinkingEnd) =>
           TimelineOf(messages') =
               IF LastThinking(Timeline) = 0 THEN Timeline
               ELSE [Timeline EXCEPT ![LastThinking(Timeline)].duration =
                                         Prop(LastEvent, KeyDuration)]]_vars

(***************************************************************************)
(* Sessions and whole streams (SpecBlocks).                                *)
(***************************************************************************)
\* the records of the session list with the given id
RecordsOf(list, id) == {i \in 1..Len(list) : list[i].session_id = id}

\* "step1step2", "Hello", "2.0", "s1"
TextSteps == <<115, 116, 101, 112, 49, 115, 116, 101, 112, 50>>
TextHello == <<72, 101, 108, 108, 111>>
TextTwo == <<50, 46, 48>>
TextS1 == <<115, 49>>

KnownTypes ==
    {TypeErrorEvent, TypeStart, TypeThinking, TypeThinkingEnd, TypeContent,
     TypeToolCall, TypeToolResult, TypeDone}

\* the step dispatches an event whose type is missing or is none of the
\* known ones
DispatchesUnknown ==
    /\ Len(delivered') = Len(delivered) + 1
    /\ Prop(LastEvent, KeyType) \notin {JStr(t) : t \in KnownTypes}

\* C22: an event whose type is missing or is not one of the known types
\* changes nothing: the messages, the session list, the error field and
\* isStreaming are after its dispatch what they were before.
C22_UnknownTypeChangesNothing ==
    [][DispatchesUnknown => UNCHANGED <<messages, sessions, error, isStreaming>>]_vars

\* C22, its case: with an answer under way and a session in the list, an
\* event of an unknown type and an event without a type have been dispatched
C22_UnknownEventsDispatched ==
    /\ \E i \in 1..Len(delivered) : Prop(delivered[i].data, KeyType) = JStr(<<112, 105, 110, 103>>)
    /\ \E i \in 1..Len(delivered) :
          /\ Prop(delivered[i].data, KeyType) = Undefined
          /\ i > 1
          /\ EventType(delivered[1].data) = TypeContent
    /\ HasAssistantMessage
    /\ sessions # <<>>

\* the blocks of the assistant message as the handler stored them
StoredBlocks ==
    IF HasAssistantMessage THEN messages[FindIndex(messages, assistantMsgId)].blocks
    ELSE <<>>

\* the block but for its duration, which a later event may still write
SansDuration(block) == [block EXCEPT !.duration = Undefined]

NamesSession(data) ==
    /\ EventType(data) \in {TypeStart, TypeDone}
    /\ Truthy(Prop(data, KeySessionId))

\* C24: reconciling the session list is idempotent: however often the
\* events that name a session are applied, the list holds exactly one
\* record with the session id they name.
C24_OneRecordPerNamedSession ==
    \A i \in 1..Len(delivered) :
        NamesSession(delivered[i].data) =>
            Cardinality(RecordsOf(sessions, Prop(delivered[i].data, KeySessionId))) = 1

\* C24, its case: the same start, naming a session the list did not hold,
\* has been applied twice and a done naming a session has followed
C24_SameStartTwice ==
    /\ Len(delivered) >= 3
    /\ EventType(delivered[1].data) = TypeStart
    /\ Prop(delivered[1].data, KeySessionId) = JStr(TextS1)
    /\ delivered[2].data = delivered[1].data
    /\ EventType(delivered[3].data) = TypeDone
    /\ NamesSession(delivered[3].data)

\* the title the contract gives a record that is new: the title of the
\* event, else the text cut to its first twelve characters (whatever mark
\* of the cut follows them), else the default
TitleAsSpecified(title, data, text) ==
    IF Truthy(Prop(data, KeyTitle)) THEN title = Prop(data, KeyTitle)
    ELSE IF text # <<>>
    THEN /\ title.k = "str"
         /\ StartsWith(title.s, SubSeq(text, 1, IF Len(text) < 12 THEN Len(text) ELSE 12))
    ELSE title = JStr(TitleDefault)

\* C25 as stated: a record that an event gives rise to is titled with the
\* title of the event, else with a truncation of the submitted text, else
\* with the default placeholder; when the record exists already and the
\* event has a title, only the title of that record changes.
C25_TitleFallsBackToDefault ==
    [][(Len(delivered') = Len(delivered) + 1 /\ NamesSession(LastEvent)) =>
           IF FindSession(sessions, Prop(LastEvent, KeySessionId)) = 0
           THEN /\ Len(sessions') = Len(sessions) + 1
                /\ sessions'[1].session_id = Prop(LastEvent, KeySessionId)
                /\ TitleAsSpecified(sessions'[1].title, LastEvent, message)
                /\ Tail(sessions') = sessions
           ELSE IF Truthy(Prop(LastEvent, KeyTitle))
           THEN sessions' =
                    [sessions EXCEPT ![FindSession(sessions, Prop(LastEvent, KeySessionId))].title =
                                         Prop(LastEvent, KeyTitle)]
           ELSE sessions' = sessions]_vars

\* C26 as stated: whatever the order in which the creation of a session,
\* the reloads of the list, the renames and the deletes are served and
\* answered, the session list holds at most one record per session id.
C26_OneRecordPerSessionId ==
    \A i, j \in 1..Len(sessions) :
        sessions[i].session_id = sessions[j].session_id => i = j

\* the list is the old one but for the title of at most one record
RetitledAtMostOne(old, new) ==
    /\ Len(new) = Len(old)
    /\ \A i \in 1..Len(old) : new[i].session_id = old[i].session_id
    /\ Cardinality({i \in 1..Len(old) : new[i].title # old[i].title}) <= 1

C28_StopSetsNoError ==
    [][(aborted' /\ hsPc \notin {"reload", "end"}) =>
           error' \in {error, NoErrorShown}]_vars

\* the state of the turn: 0 idle, 1 submitting (the session is being made
\* sure of, files are uploaded, the request is under way), 2 streaming (the
\* response has begun), 3 a terminal state (sendMessage has settled or the
\* turn has been given up)
Phase ==
    CASE hsPc = "idle" -> 0
      [] hsPc \in {"ensure", "upload"} -> 1
      [] hsPc = "send" /\ smPc = "fetch" -> 1
      [] hsPc = "send" /\ smPc \in {"errbody", "read"} -> 2
      [] OTHER -> 3

\* how the turn has ended
Outcome == <<hsPc \in {"reload", "end"}, smPc, smErr>>

C30_CompletedOnlyAfterDone ==
    (smPc = "done" /\ hsPc = "reload" /\ ~aborted) =>
        (Dispatched(TypeDone) \/ error # NoErrorShown)

\* the failure messages the handlers place in the error field
FailureMessages ==
    {ErrCreateSession, ErrLoadSessions, ErrSend, ErrDetail, ErrNetwork,
     ErrNotJson}

\* C37 as stated: a failure message stays in the error field until another
\* error replaces it; the callback of the timer that a stop started never
\* clears a failure message that was set after that stop.
C37_TimerKeepsLaterError ==
    [][(timers' < timers /\ error \in FailureMessages) => error' = error]_vars

\* C34 as stated: a session is created lazily at most once per missing
\* session: whenever the answer of a createSession call that the server
\* served is taken up by ensureCurrentSession, which inserts its record in
\* the session list, there is still no current session.
C34_CreatedOncePerMissingSession ==
    [][\A c \in inFlight :
          (c.op = "create" /\ c.served /\ c.ok /\ c \notin inFlight')
              => currentSessionId = "null"]_vars

\* C35: an exception that onChunk throws while it applies an event is
\* caught in the loop like a parse failure: sendMessage is never rejected,
\* and when the body has ended every line of it, those after the line the
\* handler threw on included, has been decoded and handed to the handler.
C35_HandlerExceptionIsCaught ==
    /\ smPc # "rejected"
    /\ smPc = "done" => (smErr = NoError /\ DeliveredLines = CompleteLines(stream))

\* C35, its case: the handler threw on a line, in a chunk of its own or
\* not, and a later line was dispatched before the stream ended
C35_LineAfterThrowDispatched ==
    /\ smPc = "done"
    /\ \E i \in 1..Len(delivered) :
          /\ PropThrows(delivered[i].data)
          /\ i < Len(delivered)
          /\ ~PropThrows(delivered[Len(delivered)].data)

\* C31 as stated: overlapping turns are independent: a step in which the
\* onChunk of one turn applies an event changes no message but the
\* assistant message that this turn pushed, and leaves the closure
\* variables of every other turn as they were.
C31_EventsChangeOwnMessageOnly ==
    [][\A t \in 1..Len(turns) :
          turns'[t].events > turns[t].events =>
              /\ Len(messages') = Len(messages)
              /\ \A i \in 1..Len(messages) :
                     messages'[i] # messages[i] =>
                         (messages[i].role = "assistant" /\ messages[i].turn = t)
              /\ \A u \in 1..Len(turns) : u # t => turns'[u] = turns[u]]_vars

\* a turn that has been submitted and has not reached a terminal state
LiveTurn(u) == u.pc \in {"ensure", "upload", "stream"}

\* C36 as stated: when the user presses stop, the signal of every turn
\* that is live is aborted after the step, a turn whose send was followed
\* by another send included.
C36_StopAbortsEveryLiveTurn ==
    [][timers' > timers =>
          \A t \in 1..Len(turns) : LiveTurn(turns[t]) => turns'[t].aborted]_vars

\* turn u is consuming its stream, its signal not being aborted
Consuming(u) == u.pc = "stream" /\ ~u.aborted

\* C32 as stated: whenever isStreaming is false, no turn is consuming its
\* stream: under every interleaving of handleSendMessage, handleStop and
\* handleSelectSession the flag stays true from the start of a stream to
\* the return of its sendMessage.
C32_NotStreamingMeansNoLiveStream ==
    ~isStreaming => \A t \in 1..Len(turns) : ~Consuming(turns[t])

\* the session a turn is bound to: the one current when the user submitted,
\* or the one ensureCurrentSession created for the turn when none was
BoundSession(t) ==
    IF turns[t].submittedIn = "null" THEN NewSessionId(t) ELSE turns[t].submittedIn

\* C33 as stated: a turn is bound to one session: the session id passed to
\* sendMessage is the one that was current at the submission (or was
\* created for the turn), and every file of the turn was uploaded to it,
\* whatever the user selected in between.
C33_TurnBoundToOneSession ==
    \A t \in 1..Len(turns) :
        turns[t].sentTo # "none" =>
            /\ turns[t].sentTo = BoundSession(t)
            /\ turns[t].uploadedTo \subseteq {turns[t].sentTo}

\* the status ChatInput shows for file k
FileStatus(k) ==
    LET hits == {i \in 1..Len(uploadedFiles) : uploadedFiles[i].file = k} IN
    IF hits = {} THEN "absent" ELSE uploadedFiles[CHOOSE i \in hits : TRUE].uploadStatus

\* send returns at once: a file is 'uploading'
SendRefused ==
    \E i \in 1..Len(uploadedFiles) : uploadedFiles[i].uploadStatus = "uploading"

\* C38 as stated: every file the user selects leaves the status
\* 'uploading', also when there was no session and the creation that
\* createSession requested fails, so that send is not refused for ever.
C38_EveryFileLeavesUploading ==
    /\ \A k \in 1..MaxPicked :
           (FileStatus(k) = "uploading") ~> (FileStatus(k) # "uploading")
    /\ SendRefused ~> ~SendRefused

====
